---- MODULE Spec2Model ----
(***************************************************************************)
(* A model of rpn-c, a reverse-Polish rational calculator with user        *)
(* functions: the dispatcher (Calculator::analyze), the expression         *)
(* extractors (extract_function, clip_head and the counter of Drop), the   *)
(* tree builder (parse_tree), the evaluator (ExecTree::reduce) and the      *)
(* lexer's conversion of a string literal (from_string).                   *)
(*                                                                         *)
(* The evaluator is modelled as a machine over a sequence of frames, one   *)
(* frame per native invocation of reduce(); StepM is one transition of it. *)
(* A handler that evaluates is at work from the token until its last       *)
(* reduce() returns; every other handler is one step.                      *)
(* Diagnostics the evaluator writes to stderr are not part of the state.   *)
(***************************************************************************)
EXTENDS Integers, Sequences, FiniteSets, TLC

VARIABLES
    stack,      \* Calculator.stack: the working stack of tokens
    table,      \* Calculator.table: name -> Object
    last,       \* the token the dispatcher handled last (history)
    out,        \* what the last handler wrote (stdout and stderr lines)
    status,     \* "ready", "computing" (inside reduce), or how the process died;
                \* "reducing" and "returned" when reduce() is run alone
    frames,     \* the native call stack of reduce(), innermost frame last
    ret,        \* the value the last returning reduce() gave back
    job,        \* the trees the handler at work reduces, and its results so far
    line,       \* the tokens submitted first: a first line, the line of a
                \* script, or the expression reduce() is run on
    fed,        \* the tokens analyzed since
    slice,      \* lex.slice(): the bytes of a string literal, quotes included
    number      \* the Int from_string made of the slice

vars == <<stack, table, last, out, status, frames, ret, job, line, fed,
          slice, number>>

-----------------------------------------------------------------------------
(* Rationals: ramp::rational::Rational, kept in lowest terms, den > 0.     *)

RECURSIVE GCD(_, _)
GCD(a, b) == IF b = 0 THEN a ELSE GCD(b, a % b)

Abs(x) == IF x < 0 THEN -x ELSE x

Rat(n, d) ==
    LET g == GCD(Abs(n), Abs(d))
        s == IF d < 0 THEN -1 ELSE 1
    IN  [num |-> s * (n \div g), den |-> s * (d \div g)]

RInt(n) == [num |-> n, den |-> 1]
Zero == RInt(0)
One == RInt(1)
is_zero(r) == r.num = 0

RAdd(a, b) == Rat(a.num * b.den + b.num * a.den, a.den * b.den)
RSub(a, b) == Rat(a.num * b.den - b.num * a.den, a.den * b.den)
RMul(a, b) == Rat(a.num * b.num, a.den * b.den)
RDiv(a, b) == Rat(a.num * b.den, a.den * b.num)
RGreater(a, b) == a.num * b.den > b.num * a.den

\* Int / Int of ramp truncates toward zero, as Rust's integer division does
IntQuot(n, d) ==
    IF (n >= 0) = (d > 0) THEN Abs(n) \div Abs(d) ELSE -(Abs(n) \div Abs(d))

\* Option<Rational>: None is the one record that is no rational
None == [num |-> 0, den |-> 0]
is_none(v) == v.den = 0

-----------------------------------------------------------------------------
(* Tokens, objects and trees.                                               *)

Number(r) == [type |-> "Number", value |-> r]
Identifier(name) == [type |-> "Identifier", name |-> name]
Argument(index) == [type |-> "Argument", index |-> index]
Op(type) == [type |-> type]
AssignVariable(name) == [type |-> "AssignVariable", name |-> name]
AssignFunction(name, arity) ==
    [type |-> "AssignFunction", name |-> name, arity |-> arity]
AssignIterative(name, arity) ==
    [type |-> "AssignIterative", name |-> name, arity |-> arity]

BinaryTypes ==
    {"Plus", "Minus", "Times", "Divide", "PositiveMinus", "IntegerDiv", "Exp"}
TernaryTypes == {"If", "ExpMod"}

ExecTree(token, arguments) == [token |-> token, arguments |-> arguments]

Variable(value) == [kind |-> "Variable", value |-> value]
Function(arity, body) == [kind |-> "Function", arity |-> arity, body |-> body]
Iterative(arity, exps, lst, cond) ==
    [kind |-> "Iterative", arity |-> arity, exps |-> exps, last |-> lst,
     cond |-> cond]

\* HashMap::insert
Insert(tbl, name, object) ==
    [n \in DOMAIN tbl \cup {name} |-> IF n = name THEN object ELSE tbl[n]]

\* Vec::split_off(at): <<what stays, what is split off>>, at counted from 0
Front(s, at) == SubSeq(s, 1, at)
Back(s, at) == SubSeq(s, at + 1, Len(s))

-----------------------------------------------------------------------------
(* The extractors.  An index is Rust's: the token looked at is stack[i-1], *)
(* which is s[i] here.                                                      *)

FoundAt(index) == [kind |-> "FoundAt", index |-> index]
NotFound == [kind |-> "NotFound", index |-> 0]
Corrupted == [kind |-> "Corrupted", index |-> 0]

\* the arity the table gives a name: a Function's or an Iterative's, else 0
TableArity(tbl, name) ==
    IF name \in DOMAIN tbl /\ tbl[name].kind \in {"Function", "Iterative"}
    THEN tbl[name].arity
    ELSE 0

\* an extractor without the check for self reference
RECURSIVE ExtractLoopByTable(_, _, _, _, _, _)
ExtractLoopByTable(stk, tbl, function_name, arity, to_copy, index) ==
    IF ~(to_copy > 0 /\ index > 0) THEN
        IF to_copy = 0 THEN FoundAt(index) ELSE NotFound
    ELSE
        LET t == stk[index] IN
        IF t.type = "Identifier" THEN
            ExtractLoopByTable(stk, tbl, function_name, arity,
                               to_copy + TableArity(tbl, t.name) - 1, index - 1)
        ELSE IF t.type \in {"Number", "Argument"} THEN
            ExtractLoopByTable(stk, tbl, function_name, arity, to_copy - 1, index - 1)
        ELSE IF t.type \in BinaryTypes THEN
            ExtractLoopByTable(stk, tbl, function_name, arity, to_copy + 1, index - 1)
        ELSE IF t.type \in TernaryTypes THEN
            ExtractLoopByTable(stk, tbl, function_name, arity, to_copy + 2, index - 1)
        ELSE Corrupted

RECURSIVE ExtractLoop(_, _, _, _, _, _)
ExtractLoop(stk, tbl, function_name, arity, to_copy, index) ==
    IF ~(to_copy > 0 /\ index > 0) THEN
        IF to_copy = 0 THEN FoundAt(index) ELSE NotFound
    ELSE
        LET t == stk[index] IN
        IF t.type = "Identifier" THEN
            IF t.name = function_name
            THEN ExtractLoop(stk, tbl, function_name, arity,
                             to_copy + arity - 1, index - 1)
            ELSE ExtractLoop(stk, tbl, function_name, arity,
                             to_copy + TableArity(tbl, t.name) - 1, index - 1)
        ELSE IF t.type \in {"Number", "Argument"} THEN
            ExtractLoop(stk, tbl, function_name, arity, to_copy - 1, index - 1)
        ELSE IF t.type \in BinaryTypes THEN
            ExtractLoop(stk, tbl, function_name, arity, to_copy + 1, index - 1)
        ELSE IF t.type \in TernaryTypes THEN
            ExtractLoop(stk, tbl, function_name, arity, to_copy + 2, index - 1)
        ELSE Corrupted

extract_function(stk, tbl, function_name, arity, index) ==
    ExtractLoop(stk, tbl, function_name, arity, 1, index)

\* a clip_head that counts an Argument as extract_function does
RECURSIVE ClipLoopCountingArguments(_, _, _, _)
ClipLoopCountingArguments(stk, tbl, to_copy, i) ==
    IF ~(to_copy > 0 /\ i > 0) THEN
        IF to_copy = 0 THEN FoundAt(i) ELSE NotFound
    ELSE
        LET t == stk[i] IN
        IF t.type = "Identifier" THEN
            ClipLoopCountingArguments(stk, tbl,
                                      to_copy + TableArity(tbl, t.name) - 1, i - 1)
        ELSE IF t.type \in {"Number", "Argument"} THEN
            ClipLoopCountingArguments(stk, tbl, to_copy - 1, i - 1)
        ELSE IF t.type \in BinaryTypes THEN
            ClipLoopCountingArguments(stk, tbl, to_copy + 1, i - 1)
        ELSE IF t.type \in TernaryTypes THEN
            ClipLoopCountingArguments(stk, tbl, to_copy + 2, i - 1)
        ELSE Corrupted

\* a clip_head whose scan steps over an Argument instead of ending
RECURSIVE ClipLoopPastArgument(_, _, _, _)
ClipLoopPastArgument(stk, tbl, to_copy, i) ==
    IF ~(to_copy > 0 /\ i > 0) THEN
        IF to_copy = 0 THEN FoundAt(i) ELSE NotFound
    ELSE
        LET t == stk[i] IN
        IF t.type = "Identifier" THEN
            ClipLoopPastArgument(stk, tbl, to_copy + TableArity(tbl, t.name) - 1, i - 1)
        ELSE IF t.type = "Number" THEN ClipLoopPastArgument(stk, tbl, to_copy - 1, i - 1)
        ELSE IF t.type = "Argument" THEN ClipLoopPastArgument(stk, tbl, to_copy, i - 1)
        ELSE IF t.type \in BinaryTypes THEN
            ClipLoopPastArgument(stk, tbl, to_copy + 1, i - 1)
        ELSE IF t.type \in TernaryTypes THEN
            ClipLoopPastArgument(stk, tbl, to_copy + 2, i - 1)
        ELSE Corrupted

\* clip_head: an Argument ends the scan with the expression incomplete
RECURSIVE ClipLoop(_, _, _, _)
ClipLoop(stk, tbl, to_copy, i) ==
    IF ~(to_copy > 0 /\ i > 0) THEN
        IF to_copy = 0 THEN FoundAt(i) ELSE NotFound
    ELSE
        LET t == stk[i] IN
        IF t.type = "Identifier" THEN
            ClipLoop(stk, tbl, to_copy + TableArity(tbl, t.name) - 1, i - 1)
        ELSE IF t.type = "Number" THEN ClipLoop(stk, tbl, to_copy - 1, i - 1)
        ELSE IF t.type = "Argument" THEN ClipLoop(stk, tbl, to_copy, 1 - 1)
        ELSE IF t.type \in BinaryTypes THEN
            ClipLoop(stk, tbl, to_copy + 1, i - 1)
        ELSE IF t.type \in TernaryTypes THEN
            ClipLoop(stk, tbl, to_copy + 2, i - 1)
        ELSE Corrupted

\* a clip_head that drops the stack it could not make an expression of
clip_head_dropping(stk, tbl) ==
    LET f == ClipLoop(stk, tbl, 1, Len(stk)) IN
    IF f.kind = "FoundAt" THEN
        [panic |-> FALSE, stack |-> Front(stk, f.index),
         expression |-> Back(stk, f.index)]
    ELSE [panic |-> f.kind = "Corrupted", stack |-> <<>>, expression |-> <<>>]

\* the stack left and the expression split off (empty when none was found)
clip_head(stk, tbl) ==
    LET f == ClipLoop(stk, tbl, 1, Len(stk)) IN
    IF f.kind = "FoundAt" THEN
        [panic |-> FALSE, stack |-> Front(stk, f.index),
         expression |-> Back(stk, f.index)]
    ELSE [panic |-> f.kind = "Corrupted", stack |-> stk, expression |-> <<>>]

\* a Drop that leaves the stack when it holds no complete expression
DropLoopLeavingIncomplete(stk, tbl, to_drop) ==
    LET found == ExtractLoop(stk, tbl, "", 0, to_drop, Len(stk)) IN
    IF found.kind = "FoundAt"
    THEN [panic |-> FALSE, stack |-> Front(stk, found.index)]
    ELSE [panic |-> found.kind = "Corrupted", stack |-> stk]

\* a Drop that pops one token
DropLoopOneToken(stk, tbl, to_drop) ==
    IF stk = <<>> THEN [panic |-> FALSE, stack |-> stk]
    ELSE [panic |-> FALSE, stack |-> Front(stk, Len(stk) - 1)]

\* the counter of Drop: pops until the expression is complete or the stack ends
RECURSIVE DropLoop(_, _, _)
DropLoop(stk, tbl, to_drop) ==
    IF ~(to_drop > 0) THEN [panic |-> FALSE, stack |-> stk]
    ELSE IF stk = <<>> THEN DropLoop(stk, tbl, 0)
    ELSE
        LET t == stk[Len(stk)]
            rest == Front(stk, Len(stk) - 1)
        IN
        IF t.type = "Identifier" THEN
            DropLoop(rest, tbl, to_drop + TableArity(tbl, t.name) - 1)
        ELSE IF t.type \in {"Number", "Argument"} THEN
            DropLoop(rest, tbl, to_drop - 1)
        ELSE IF t.type \in BinaryTypes THEN DropLoop(rest, tbl, to_drop + 1)
        ELSE IF t.type \in TernaryTypes THEN DropLoop(rest, tbl, to_drop + 2)
        ELSE [panic |-> TRUE, stack |-> rest]

-----------------------------------------------------------------------------
(* The tree builder.                                                        *)

\* a builder for which no name takes operands
OperandsOfNoName(tbl, token) ==
    IF token.type \in {"Identifier", "Number", "Argument"} THEN 0
    ELSE IF token.type \in BinaryTypes THEN 2
    ELSE IF token.type \in TernaryTypes THEN 3
    ELSE -1

\* the operands a token takes off the scratch stack; -1: no expression token
Operands(tbl, token) ==
    IF token.type = "Identifier" THEN TableArity(tbl, token.name)
    ELSE IF token.type \in {"Number", "Argument"} THEN 0
    ELSE IF token.type \in BinaryTypes THEN 2
    ELSE IF token.type \in TernaryTypes THEN 3
    ELSE -1

Reverse(s) == [i \in 1..Len(s) |-> s[Len(s) + 1 - i]]

\* a tree builder that hands a node its operands the last pushed first
RECURSIVE ParseLoopReversing(_, _, _, _)
ParseLoopReversing(tokens, k, tbl, arguments) ==
    IF k > Len(tokens) THEN [panic |-> FALSE, why |-> "", arguments |-> arguments]
    ELSE
        LET token == tokens[k]
            n == Operands(tbl, token)
            len == Len(arguments)
        IN
        IF n < 0 THEN [panic |-> TRUE, why |-> "parse_tree: Corrupted stack",
                       arguments |-> arguments]
        ELSE IF len - n < 0 THEN [panic |-> TRUE, why |-> "parse_tree: split_off",
                                  arguments |-> arguments]
        ELSE ParseLoopReversing(tokens, k + 1, tbl,
                                Append(Front(arguments, len - n),
                                       ExecTree(token, Reverse(Back(arguments, len - n)))))

\* the scratch stack after the tokens from k on; len - arity underflows into
\* a panic of split_off
RECURSIVE ParseLoop(_, _, _, _)
ParseLoop(tokens, k, tbl, arguments) ==
    IF k > Len(tokens) THEN [panic |-> FALSE, why |-> "", arguments |-> arguments]
    ELSE
        LET token == tokens[k]
            n == Operands(tbl, token)
            len == Len(arguments)
        IN
        IF n < 0 THEN [panic |-> TRUE, why |-> "parse_tree: Corrupted stack",
                       arguments |-> arguments]
        ELSE IF len - n < 0 THEN [panic |-> TRUE, why |-> "parse_tree: split_off",
                                  arguments |-> arguments]
        ELSE ParseLoop(tokens, k + 1, tbl,
                       Append(Front(arguments, len - n),
                              ExecTree(token, Back(arguments, len - n))))

\* the root is arguments.pop().unwrap()
parse_tree(tokens, tbl) ==
    LET r == ParseLoop(tokens, 1, tbl, <<>>) IN
    IF r.panic THEN [panic |-> TRUE, why |-> r.why, tree |-> <<>>]
    ELSE IF r.arguments = <<>>
        THEN [panic |-> TRUE, why |-> "parse_tree: unwrap", tree |-> <<>>]
    ELSE [panic |-> FALSE, why |-> "", tree |-> r.arguments[Len(r.arguments)]]

-----------------------------------------------------------------------------
(* The evaluator: ExecTree::reduce as a machine.  A frame holds the locals  *)
(* of one invocation of reduce(): token and arguments (the node the loop is *)
(* at), args, func_args; pc is where the invocation stands, acc the values  *)
(* collected so far by the map it is in.                                    *)

Frame(tree, args) ==
    [token |-> tree.token, arguments |-> tree.arguments, args |-> args,
     pc |-> "loop", acc |-> <<>>, func_args |-> <<>>]

\* a fresh call of tree.reduce(table, args)
StartM(tree, args) == [frames |-> <<Frame(tree, args)>>, ret |-> None, panic |-> ""]

Top(m) == m.frames[Len(m.frames)]
Callers(m) == Front(m.frames, Len(m.frames) - 1)

\* return v: the invocation ends and its caller reads v
ReturnM(m, v) == [m EXCEPT !.frames = Callers(m), !.ret = v]
\* the loop goes on in the same invocation, with its locals now f
GotoM(m, f) == [m EXCEPT !.frames = Append(Callers(m), f)]
\* a nested tree.reduce(table, args), the locals left as f meanwhile
CallM(m, f, tree, args) ==
    [m EXCEPT !.frames = Append(Append(Callers(m), f), Frame(tree, args))]
PanicM(m, where) == [m EXCEPT !.panic = where]

\* arguments[i] of the source, an index panic when it is missing
CallChild(m, f, i) ==
    IF i + 1 > Len(f.arguments) THEN PanicM(m, "reduce index")
    ELSE CallM(m, f, f.arguments[i + 1], f.args)

HasNone(vs) == \E i \in 1..Len(vs) : is_none(vs[i])

\* a tail call that goes on with the arguments of the caller
TailCallKeepingArgs(m, f, tree, func_args) ==
    GotoM(m, [token |-> tree.token, arguments |-> tree.arguments,
              args |-> f.args, pc |-> "loop", acc |-> <<>>,
              func_args |-> f.args])

\* a tail call: the loop goes on at tree with args
TailCall(m, f, tree, func_args) ==
    GotoM(m, [token |-> tree.token, arguments |-> tree.arguments,
              args |-> func_args, pc |-> "loop", acc |-> <<>>,
              func_args |-> func_args])

\* a Function entered whatever its arguments are worth
EnterFunctionDespiteNone(m, f, tbl, func_args) ==
    TailCall(m, f, tbl[f.token.name].body, func_args)

\* Function: the arguments are evaluated, the body is a tail call
EnterFunction(m, f, tbl, func_args) ==
    IF HasNone(func_args) THEN ReturnM(m, None)
    ELSE TailCall(m, f, tbl[f.token.name].body, func_args)

\* Iterative: after the while loop
IterExit(m, f, tbl) ==
    IF HasNone(f.func_args) THEN ReturnM(m, None)
    ELSE TailCall(m, f, tbl[f.token.name].last, f.func_args)

\* Iterative: the head of the while loop, run_function(cond, &func_args)
IterTest(m, f, tbl) ==
    IF HasNone(f.func_args) THEN IterExit(m, f, tbl)
    ELSE CallM(m, [f EXCEPT !.pc = "IterCond"], tbl[f.token.name].cond,
               f.func_args)

\* square and multiply, as the loop of Exp does it
RECURSIVE ExpLoop(_, _, _)
ExpLoop(a, b, result) ==
    IF b = 0 THEN result
    ELSE ExpLoop(RMul(a, a), b \div 2,
                 IF b % 2 = 1 THEN RMul(result, a) ELSE result)

RECURSIVE IntPow(_, _)
IntPow(a, b) == IF b = 0 THEN 1 ELSE a * IntPow(a, b - 1)

\* binary operators whose divisions by zero are worth zero
BinaryValueZeroOnDivide(type, a, b) ==
    IF type = "Plus" THEN RAdd(a, b)
    ELSE IF type = "Minus" THEN RSub(a, b)
    ELSE IF type = "Times" THEN RMul(a, b)
    ELSE IF type = "Divide" THEN (IF ~is_zero(b) THEN RDiv(a, b) ELSE Zero)
    ELSE IF type = "PositiveMinus" THEN
        LET c == RSub(a, b) IN IF RGreater(c, Zero) THEN c ELSE Zero
    ELSE IF type = "IntegerDiv" THEN
        (IF ~is_zero(b)
         THEN LET q == RDiv(a, b) IN RInt(IntQuot(q.num, q.den))
         ELSE Zero)
    ELSE \* Exp
        ExpLoop(a, Abs(IntQuot(b.num, b.den)), One)

\* the binary operators on two computed values; "Corrupted" for another token
BinaryValue(type, a, b) ==
    IF type = "Plus" THEN RAdd(a, b)
    ELSE IF type = "Minus" THEN RSub(a, b)
    ELSE IF type = "Times" THEN RMul(a, b)
    ELSE IF type = "Divide" THEN (IF ~is_zero(b) THEN RDiv(a, b) ELSE None)
    ELSE IF type = "PositiveMinus" THEN
        LET c == RSub(a, b) IN IF RGreater(c, Zero) THEN c ELSE Zero
    ELSE IF type = "IntegerDiv" THEN
        (IF ~is_zero(b)
         THEN LET q == RDiv(a, b) IN RInt(IntQuot(q.num, q.den))
         ELSE None)
    ELSE \* Exp
        ExpLoop(a, Abs(IntQuot(b.num, b.den)), One)

\* a.pow_mod(&b, &c) on the floors; ramp rejects a zero modulus
ExpModValue(a, b, c) ==
    LET x == IntQuot(a.num, a.den)
        y == Abs(IntQuot(b.num, b.den))
        z == Abs(IntQuot(c.num, c.den))
    IN  RInt(IntPow(x, y) % z)

\* If: the arm the loop goes on with, arguments[1] when the condition is zero
ArmTakingThenOnZero(f, condition) ==
    IF is_zero(condition) THEN f.arguments[1] ELSE f.arguments[2]
Arm(f, condition) ==
    IF is_zero(condition) THEN f.arguments[2] ELSE f.arguments[1]

\* Iterative: the args an update expression is run on while acc holds the
\* values of the updates before it: func_args is assigned after collect()
UpdateArgsInPlace(f, acc) ==
    [i \in 1..Len(f.func_args) |-> IF i <= Len(acc) THEN acc[i] ELSE f.func_args[i]]
UpdateArgs(f, acc) == f.func_args

\* a loop that calls a function on the children the node has, whatever the
\* arity of the function is now
StepLoopTrustingTheTree(m, tbl) ==
    LET f == Top(m)
        token == f.token
    IN
    IF token.type = "If" THEN CallChild(m, [f EXCEPT !.pc = "If"], 2)
    ELSE IF token.type = "Number" THEN ReturnM(m, token.value)
    ELSE IF token.type = "Identifier" THEN
        IF token.name \notin DOMAIN tbl THEN ReturnM(m, None)
        ELSE
            LET id == tbl[token.name] IN
            IF id.kind = "Variable" THEN ReturnM(m, id.value)
            ELSE IF id.kind = "Function" THEN
                IF f.arguments = <<>> THEN EnterFunction(m, f, tbl, <<>>)
                ELSE CallChild(m, [f EXCEPT !.pc = "Function", !.acc = <<>>], 0)
            ELSE \* Iterative
                IF f.arguments = <<>>
                THEN IterTest(m, [f EXCEPT !.func_args = <<>>], tbl)
                ELSE CallChild(m, [f EXCEPT !.pc = "IterArgs", !.acc = <<>>], 0)
    ELSE IF token.type = "Argument" THEN
        IF token.index < Len(f.args) THEN ReturnM(m, f.args[token.index + 1])
        ELSE ReturnM(m, None)
    ELSE IF token.type = "ExpMod" THEN
        CallChild(m, [f EXCEPT !.pc = "ExpMod", !.acc = <<>>], 0)
    ELSE CallChild(m, [f EXCEPT !.pc = "Binary", !.acc = <<>>], 0)

\* the match of the loop on the token of the node
StepLoop(m, tbl) ==
    LET f == Top(m)
        token == f.token
    IN
    IF token.type = "If" THEN CallChild(m, [f EXCEPT !.pc = "If"], 2)
    ELSE IF token.type = "Number" THEN ReturnM(m, token.value)
    ELSE IF token.type = "Identifier" THEN
        IF token.name \notin DOMAIN tbl THEN ReturnM(m, None)
        ELSE
            LET id == tbl[token.name] IN
            IF id.kind = "Variable" THEN ReturnM(m, id.value)
            ELSE IF Len(f.arguments) # id.arity THEN ReturnM(m, None)
            ELSE IF id.kind = "Function" THEN
                IF f.arguments = <<>> THEN EnterFunction(m, f, tbl, <<>>)
                ELSE CallChild(m, [f EXCEPT !.pc = "Function", !.acc = <<>>], 0)
            ELSE \* Iterative
                IF f.arguments = <<>>
                THEN IterTest(m, [f EXCEPT !.func_args = <<>>], tbl)
                ELSE CallChild(m, [f EXCEPT !.pc = "IterArgs", !.acc = <<>>], 0)
    ELSE IF token.type = "Argument" THEN
        IF token.index < Len(f.args) THEN ReturnM(m, f.args[token.index + 1])
        ELSE ReturnM(m, None)
    ELSE IF token.type = "ExpMod" THEN
        CallChild(m, [f EXCEPT !.pc = "ExpMod", !.acc = <<>>], 0)
    ELSE CallChild(m, [f EXCEPT !.pc = "Binary", !.acc = <<>>], 0)

\* a nested reduce() has returned m.ret to the invocation on top
StepReturned(m, tbl) ==
    LET f == Top(m)
        acc == Append(f.acc, m.ret)
        g == [f EXCEPT !.acc = acc]
    IN
    IF f.pc = "If" THEN
        IF is_none(m.ret) THEN ReturnM(m, None)
        ELSE
            LET arm == Arm(f, m.ret)
            IN  GotoM(m, [f EXCEPT !.token = arm.token,
                                   !.arguments = arm.arguments, !.pc = "loop"])
    ELSE IF f.pc = "Function" THEN
        IF Len(acc) < Len(f.arguments) THEN CallChild(m, g, Len(acc))
        ELSE EnterFunction(m, f, tbl, acc)
    ELSE IF f.pc = "IterArgs" THEN
        IF Len(acc) < Len(f.arguments) THEN CallChild(m, g, Len(acc))
        ELSE IterTest(m, [f EXCEPT !.func_args = acc, !.acc = <<>>], tbl)
    ELSE IF f.pc = "IterCond" THEN
        LET exps == tbl[f.token.name].exps IN
        IF is_none(m.ret) THEN IterExit(m, f, tbl)
        ELSE IF ~is_zero(m.ret) THEN
            IF exps = <<>> THEN IterTest(m, [f EXCEPT !.func_args = <<>>], tbl)
            ELSE CallM(m, [f EXCEPT !.pc = "IterExps", !.acc = <<>>], exps[1],
                       UpdateArgs(f, <<>>))
        ELSE \* stop = true; the while let runs cond once more before it ends
            CallM(m, [f EXCEPT !.pc = "IterStop"], tbl[f.token.name].cond,
                  f.func_args)
    ELSE IF f.pc = "IterStop" THEN IterExit(m, f, tbl)
    ELSE IF f.pc = "IterExps" THEN
        LET exps == tbl[f.token.name].exps IN
        IF Len(acc) < Len(exps)
        THEN CallM(m, g, exps[Len(acc) + 1], UpdateArgs(f, acc))
        ELSE IterTest(m, [f EXCEPT !.func_args = acc, !.acc = <<>>], tbl)
    ELSE IF f.pc = "ExpMod" THEN
        IF Len(acc) < 3 THEN CallChild(m, g, Len(acc))
        ELSE IF HasNone(acc) THEN ReturnM(m, None)
        ELSE IF is_zero(RInt(IntQuot(acc[3].num, acc[3].den)))
            THEN PanicM(m, "pow_mod")
        ELSE ReturnM(m, ExpModValue(acc[1], acc[2], acc[3]))
    ELSE \* Binary
        IF Len(acc) < 2 THEN CallChild(m, g, Len(acc))
        ELSE IF HasNone(acc) THEN ReturnM(m, None)
        ELSE IF f.token.type \notin BinaryTypes
            THEN PanicM(m, "reduce: Corrupted stack")
        ELSE ReturnM(m, BinaryValue(f.token.type, acc[1], acc[2]))

RunningM(m) == m.frames # <<>> /\ m.panic = ""

\* an evaluator that reduces both arms of an If before it selects one
StepMEager(m, tbl) ==
    LET f == Top(m)
        acc == Append(f.acc, m.ret)
    IN
    IF f.pc = "loop" /\ f.token.type = "If"
        THEN CallChild(m, [f EXCEPT !.pc = "IfArms", !.acc = <<>>], 0)
    ELSE IF f.pc = "IfArms" THEN
        IF Len(acc) < 3 THEN CallChild(m, [f EXCEPT !.acc = acc], Len(acc))
        ELSE IF is_none(acc[3]) THEN ReturnM(m, None)
        ELSE IF is_zero(acc[3]) THEN ReturnM(m, acc[2])
        ELSE ReturnM(m, acc[1])
    ELSE IF f.pc = "loop" THEN StepLoop(m, tbl)
    ELSE StepReturned(m, tbl)

\* an evaluator whose tail calls are nested invocations: the invocation
\* waits for the arm or the body and returns its value
StepMNested(m, tbl) ==
    LET f == Top(m)
        n == IF f.pc = "loop" THEN StepLoop(m, tbl) ELSE StepReturned(m, tbl)
    IN
    IF f.pc = "Tail" THEN ReturnM(m, m.ret)
    ELSE IF /\ n.panic = ""
            /\ Len(n.frames) = Len(m.frames)
            /\ Top(n).pc = "loop"
        THEN [n EXCEPT !.frames = Append(Append(Callers(m), [f EXCEPT !.pc = "Tail"]),
                                         Top(n))]
    ELSE n

\* one transition of the evaluator
StepM(m, tbl) ==
    IF Top(m).pc = "loop" THEN StepLoop(m, tbl) ELSE StepReturned(m, tbl)

\* the evaluator run for at most fuel transitions
RECURSIVE RunM(_, _, _)
RunM(m, tbl, fuel) ==
    IF ~RunningM(m) \/ fuel = 0 THEN m ELSE RunM(StepM(m, tbl), tbl, fuel - 1)

-----------------------------------------------------------------------------
(* The dispatcher: Calculator::analyze and what it calls.  A calculator is  *)
(* the record c of stack, table, out, status, frames, ret and job.          *)

\* what is written: a line of text, or the bytes Format writes and a newline
Line(text) == [text |-> text, bytes |-> <<>>]
Bytes(bytes) == [text |-> "", bytes |-> bytes]

\* "{}" or "{}/{}" of the parts of a normalized rational
Show(r) ==
    IF r.den = 1 THEN ToString(r.num)
    ELSE ToString(r.num) \o "/" \o ToString(r.den)

\* impl Display for Token
TokenText(t) ==
    IF t.type = "Number" THEN Show(t.value)
    ELSE IF t.type = "Plus" THEN "+"
    ELSE IF t.type = "Minus" THEN "-"
    ELSE IF t.type = "Times" THEN "*"
    ELSE IF t.type = "Divide" THEN "/"
    ELSE IF t.type = "IntegerDiv" THEN "\\"
    ELSE IF t.type = "If" THEN "?"
    ELSE IF t.type = "PositiveMinus" THEN "~"
    ELSE IF t.type = "Exp" THEN "^"
    ELSE IF t.type = "ExpMod" THEN "_"
    ELSE IF t.type = "Argument" THEN "$" \o ToString(t.index)
    ELSE IF t.type = "Identifier" THEN t.name
    ELSE "Unprintable"

RECURSIVE PrintLoop(_, _)
PrintLoop(stk, k) ==
    IF k > Len(stk) THEN "" ELSE TokenText(stk[k]) \o " " \o PrintLoop(stk, k + 1)

\* an Int as its base-256 digits, the low digit first, none for zero
RECURSIVE ToDigits(_)
ToDigits(n) == IF n = 0 THEN <<>> ELSE <<n % 256>> \o ToDigits(n \div 256)

\* the bytes of the buffered word, the high byte first
WordBytesHighFirst(word) ==
    [iter \in 1..8 |-> IF 9 - iter <= Len(word) THEN word[9 - iter] ELSE 0]

\* the bytes of the buffered word: partial >> (iter * 8) & 255, iter = 0..7
WordBytes(word) == [iter \in 1..8 |-> IF iter <= Len(word) THEN word[iter] ELSE 0]

\* Stringer: divmod by 2^64 takes the eight low digits off num, which are
\* written low byte first; it ends when num is zero
RECURSIVE Stringer(_)
Stringer(num) ==
    IF num = <<>> THEN <<>>
    ELSE LET n == IF Len(num) < 8 THEN Len(num) ELSE 8
         IN  WordBytes(Front(num, n)) \o Stringer(Back(num, n))

\* what a handler is reducing: its trees, the values it has, and the args
\* its reduce() is called with (&Vec::new() in the dispatcher)
NoJob == [all_trees |-> <<>>, results |-> <<>>, args |-> <<>>]
NoTree == ExecTree(Op("Error"), <<>>)

\* a handler has ended: the stack and the table it leaves, what it wrote
Done(c, stk, tbl, o) ==
    [c EXCEPT !.stack = stk, !.table = tbl, !.out = o, !.status = "ready",
              !.frames = <<>>, !.job = NoJob]
\* the process has died in a handler
Died(c, stk, tbl, how) ==
    [c EXCEPT !.stack = stk, !.table = tbl, !.out = <<>>, !.status = how,
              !.job = NoJob]
\* a compute() that reads the expression and leaves it on the stack
ComputingInPlace(c, stk, all_trees, results) ==
    [c EXCEPT !.out = <<>>, !.status = "computing",
              !.frames = <<Frame(all_trees[Len(results) + 1], <<>>)>>,
              !.job = [all_trees |-> all_trees, results |-> results,
                       args |-> <<>>]]

\* the handler goes into tree.reduce(&self.table, &Vec::new())
Computing(c, stk, all_trees, results) ==
    [c EXCEPT !.stack = stk, !.out = <<>>, !.status = "computing",
              !.frames = <<Frame(all_trees[Len(results) + 1], <<>>)>>,
              !.job = [all_trees |-> all_trees, results |-> results,
                       args |-> <<>>]]

\* Calculator::compute up to the call of reduce: the stack is clipped and the
\* tree built; all_trees is empty when the expression was incomplete
ComputeBegin(stk, tbl) ==
    LET c == clip_head(stk, tbl)
        p == parse_tree(c.expression, tbl)
    IN
    IF c.panic THEN [stack |-> stk, all_trees |-> <<>>,
                     fault |-> "clip_head: Corrupted stack"]
    ELSE IF Len(c.expression) = 0
        THEN [stack |-> c.stack, all_trees |-> <<>>, fault |-> ""]
    ELSE IF p.panic THEN [stack |-> c.stack, all_trees |-> <<>>, fault |-> p.why]
    ELSE [stack |-> c.stack, all_trees |-> <<p.tree>>, fault |-> ""]

\* a compute_all that stops after the expression on top
ClipAllOnce(stk, tbl, all_trees) ==
    IF ~(Len(stk) > 0) THEN [stack |-> stk, all_trees |-> all_trees, fault |-> ""]
    ELSE
        LET c == clip_head(stk, tbl)
            p == parse_tree(c.expression, tbl)
        IN
        IF c.panic THEN [stack |-> stk, all_trees |-> all_trees,
                         fault |-> "clip_head: Corrupted stack"]
        ELSE IF ~(Len(c.expression) > 0) THEN
            [stack |-> c.stack, all_trees |-> Append(all_trees, NoTree), fault |-> ""]
        ELSE IF p.panic THEN
            [stack |-> c.stack, all_trees |-> all_trees, fault |-> p.why]
        ELSE [stack |-> c.stack, all_trees |-> Append(all_trees, p.tree), fault |-> ""]

\* Calculator::compute_all up to the reductions: every expression is split
\* off and built first; NoTree stands for the None of an incomplete one
RECURSIVE ClipAll(_, _, _)
ClipAll(stk, tbl, all_trees) ==
    IF ~(Len(stk) > 0) THEN [stack |-> stk, all_trees |-> all_trees, fault |-> ""]
    ELSE
        LET c == clip_head(stk, tbl)
            p == parse_tree(c.expression, tbl)
        IN
        IF c.panic THEN [stack |-> stk, all_trees |-> all_trees,
                         fault |-> "clip_head: Corrupted stack"]
        ELSE IF ~(Len(c.expression) > 0) THEN
            [stack |-> c.stack, all_trees |-> Append(all_trees, NoTree), fault |-> ""]
        ELSE IF p.panic THEN
            [stack |-> c.stack, all_trees |-> all_trees, fault |-> p.why]
        ELSE ClipAll(c.stack, tbl, Append(all_trees, p.tree))

\* the lines of Flush, one per result
RECURSIVE FlushLines(_, _)
FlushLines(results, k) ==
    IF k > Len(results) THEN <<>>
    ELSE <<IF is_none(results[k]) THEN Line("Incomplete expression")
           ELSE Line("> " \o Show(results[k]))>> \o FlushLines(results, k + 1)

\* a Duplicate that pushes its value once
FinishComputePushingOnce(c, token, v) ==
    IF is_none(v) THEN
        Done(c, c.stack, c.table,
             <<IF token.type \in {"Duplicate", "AssignVariable"}
               THEN Line("Incomplete expression, dropped stack")
               ELSE Line("Incomplete expression")>>)
    ELSE IF token.type = "Return"
        THEN Done(c, c.stack, c.table, <<Line("> " \o Show(v))>>)
    ELSE IF token.type = "Format" THEN
        Done(c, c.stack, c.table,
             <<Bytes(Stringer(ToDigits(Abs(v.num))))>>
             \o (IF v.den # 1 THEN <<Bytes(Stringer(ToDigits(v.den)))>> ELSE <<>>))
    ELSE IF token.type = "Approx"
        THEN Done(c, c.stack, c.table, <<Line("> f64 " \o Show(v))>>)
    ELSE IF token.type = "Partial"
        THEN Done(c, Append(c.stack, Number(v)), c.table, <<Line("< " \o Show(v))>>)
    ELSE IF token.type = "Duplicate"
        THEN Done(c, c.stack \o <<Number(v)>>, c.table, <<>>)
    ELSE \* AssignVariable
        Done(c, c.stack, Insert(c.table, token.name, Variable(v)), <<>>)

\* what a handler does with the value compute() gave it
FinishCompute(c, token, v) ==
    IF is_none(v) THEN
        Done(c, c.stack, c.table,
             <<IF token.type \in {"Duplicate", "AssignVariable"}
               THEN Line("Incomplete expression, dropped stack")
               ELSE Line("Incomplete expression")>>)
    ELSE IF token.type = "Return"
        THEN Done(c, c.stack, c.table, <<Line("> " \o Show(v))>>)
    ELSE IF token.type = "Format" THEN
        Done(c, c.stack, c.table,
             <<Bytes(Stringer(ToDigits(Abs(v.num))))>>
             \o (IF v.den # 1 THEN <<Bytes(Stringer(ToDigits(v.den)))>> ELSE <<>>))
    ELSE IF token.type = "Approx"
        THEN Done(c, c.stack, c.table, <<Line("> f64 " \o Show(v))>>)
    ELSE IF token.type = "Partial"
        THEN Done(c, Append(c.stack, Number(v)), c.table, <<Line("< " \o Show(v))>>)
    ELSE IF token.type = "Duplicate"
        THEN Done(c, c.stack \o <<Number(v), Number(v)>>, c.table, <<>>)
    ELSE \* AssignVariable
        Done(c, c.stack, Insert(c.table, token.name, Variable(v)), <<>>)

\* every tree of the job is reduced: the handler ends
Finish(c, token, results) ==
    IF token.type = "Flush" THEN Done(c, c.stack, c.table, FlushLines(results, 1))
    ELSE FinishCompute(c, token, results[1])

\* the handler goes on to its next tree, if it has one to reduce
Proceed(c, token, all_trees, results) ==
    IF Len(results) = Len(all_trees) THEN Finish(c, token, results)
    ELSE IF all_trees[Len(results) + 1] = NoTree
        THEN Finish(c, token, Append(results, None))
    ELSE Computing(c, c.stack, all_trees, results)

\* the placeholder a definition installs under its name before it builds
Sentinel(arity) == Function(arity, ExecTree(Number(Zero), <<>>))

\* an AssignFunction that builds the body against the table as it was
assign_function_unregistered(c, name, arity) ==
    LET stk == c.stack
        tbl == c.table
        f == extract_function(stk, tbl, name, arity, Len(stk))
        p == parse_tree(Back(stk, f.index), tbl)
    IN
    IF f.kind = "Corrupted" THEN Died(c, stk, tbl, "extract_function: Corrupted stack")
    ELSE IF f.kind = "NotFound"
        THEN Done(c, stk, tbl, <<Line("Incomplete function declaration")>>)
    ELSE IF p.panic THEN Died(c, Front(stk, f.index), tbl, p.why)
    ELSE Done(c, Front(stk, f.index), Insert(tbl, name, Function(arity, p.tree)),
              <<>>)

\* the tokens of a body with every name that is a Variable replaced by its value
EarlyBound(tokens, tbl) ==
    [k \in 1..Len(tokens) |->
        IF /\ tokens[k].type = "Identifier"
           /\ tokens[k].name \in DOMAIN tbl
           /\ tbl[tokens[k].name].kind = "Variable"
        THEN Number(tbl[tokens[k].name].value)
        ELSE tokens[k]]

\* an AssignFunction that binds the variables of the body at the definition
assign_function_early_bound(c, name, arity) ==
    LET stk == c.stack
        tbl == c.table
        f == extract_function(stk, tbl, name, arity, Len(stk))
        fake == Insert(tbl, name, Sentinel(arity))
        p == parse_tree(EarlyBound(Back(stk, f.index), tbl), fake)
    IN
    IF f.kind = "Corrupted" THEN Died(c, stk, tbl, "extract_function: Corrupted stack")
    ELSE IF f.kind = "NotFound"
        THEN Done(c, stk, tbl, <<Line("Incomplete function declaration")>>)
    ELSE IF p.panic THEN Died(c, Front(stk, f.index), fake, p.why)
    ELSE Done(c, Front(stk, f.index), Insert(fake, name, Function(arity, p.tree)),
              <<>>)

\* AssignFunction
assign_function(c, name, arity) ==
    LET stk == c.stack
        tbl == c.table
        f == extract_function(stk, tbl, name, arity, Len(stk))
        fake == Insert(tbl, name, Sentinel(arity))
        p == parse_tree(Back(stk, f.index), fake)
    IN
    IF f.kind = "Corrupted" THEN Died(c, stk, tbl, "extract_function: Corrupted stack")
    ELSE IF f.kind = "NotFound"
        THEN Done(c, stk, tbl, <<Line("Incomplete function declaration")>>)
    ELSE IF p.panic THEN Died(c, Front(stk, f.index), fake, p.why)
    ELSE Done(c, Front(stk, f.index), Insert(fake, name, Function(arity, p.tree)),
              <<>>)

\* AssignIterative: the loop that collects the indices
RECURSIVE IndicesLoop(_, _, _, _, _, _)
IndicesLoop(stk, tbl, name, arity, index, expressions) ==
    IF ~(expressions > 0) THEN [indices |-> <<>>, found |-> TRUE, panic |-> FALSE]
    ELSE
        LET f == extract_function(stk, tbl, name, arity, index)
            more == IndicesLoop(stk, tbl, name, arity, f.index, expressions - 1)
        IN
        IF f.kind = "Corrupted" THEN [indices |-> <<>>, found |-> FALSE, panic |-> TRUE]
        ELSE IF f.kind = "NotFound"
            THEN [indices |-> <<>>, found |-> FALSE, panic |-> FALSE]
        ELSE [more EXCEPT !.indices = <<f.index>> \o more.indices]

\* the expressions split off at the indices, the top-most first, each built
\* a split that hands the trees over with the lowest expression first
RECURSIVE SplitAndParseLowestFirst(_, _, _, _)
SplitAndParseLowestFirst(stk, tbl, indices, k) ==
    IF k > Len(indices) THEN [trees |-> <<>>, panic |-> FALSE, why |-> ""]
    ELSE
        LET p == parse_tree(Back(stk, indices[k]), tbl)
            more == SplitAndParseLowestFirst(Front(stk, indices[k]), tbl, indices,
                                             k + 1)
        IN  IF p.panic THEN [trees |-> <<>>, panic |-> TRUE, why |-> p.why]
            ELSE [more EXCEPT !.trees = more.trees \o <<p.tree>>]

RECURSIVE SplitAndParse(_, _, _, _)
SplitAndParse(stk, tbl, indices, k) ==
    IF k > Len(indices) THEN [trees |-> <<>>, panic |-> FALSE, why |-> ""]
    ELSE
        LET p == parse_tree(Back(stk, indices[k]), tbl)
            more == SplitAndParse(Front(stk, indices[k]), tbl, indices, k + 1)
        IN  IF p.panic THEN [trees |-> <<>>, panic |-> TRUE, why |-> p.why]
            ELSE [more EXCEPT !.trees = <<p.tree>> \o more.trees]

\* an AssignIterative that does not put the old object back
assign_iterative_keeping_placeholder(c, name, arity) ==
    LET stk == c.stack
        tbl == c.table
        l == IndicesLoop(stk, tbl, name, arity, Len(stk), arity + 2)
        o == IF l.found THEN <<>> ELSE <<Line("Incomplete function declaration")>>
        fake == Insert(tbl, name, Sentinel(arity))
        built == SplitAndParse(stk, fake, l.indices, 1)
        expressions == Reverse(built.trees)
        rest == Front(stk, l.indices[Len(l.indices)])
    IN
    IF l.panic THEN Died(c, stk, tbl, "extract_function: Corrupted stack")
    ELSE IF arity + 2 = Len(l.indices) THEN
        IF built.panic THEN Died(c, rest, fake, built.why)
        ELSE Done(c, rest,
                  Insert(fake, name,
                         Iterative(arity, Front(expressions, arity),
                                   expressions[arity + 1], expressions[arity + 2])),
                  o)
    ELSE Done(c, stk, fake, o)

assign_iterative(c, name, arity) ==
    LET stk == c.stack
        tbl == c.table
        l == IndicesLoop(stk, tbl, name, arity, Len(stk), arity + 2)
        o == IF l.found THEN <<>> ELSE <<Line("Incomplete function declaration")>>
        fake == Insert(tbl, name, Sentinel(arity))
        built == SplitAndParse(stk, fake, l.indices, 1)
        expressions == Reverse(built.trees)
        rest == Front(stk, l.indices[Len(l.indices)])
    IN
    IF l.panic THEN Died(c, stk, tbl, "extract_function: Corrupted stack")
    ELSE IF arity + 2 = Len(l.indices) THEN
        IF built.panic THEN Died(c, rest, fake, built.why)
        ELSE Done(c, rest,
                  Insert(fake, name,
                         Iterative(arity, Front(expressions, arity),
                                   expressions[arity + 1], expressions[arity + 2])),
                  o)
    ELSE IF name \in DOMAIN tbl THEN Done(c, stk, Insert(fake, name, tbl[name]), o)
    ELSE Done(c, stk, fake, o)

ComputeTypes ==
    {"Return", "Format", "Approx", "Partial", "Duplicate", "AssignVariable"}

\* an analyze without the arm of Error: the token falls to the last arm
analyze_without_error_arm(c, token) ==
    IF token.type \in ComputeTypes THEN
        LET b == ComputeBegin(c.stack, c.table) IN
        IF b.fault # "" THEN Died(c, b.stack, c.table, b.fault)
        ELSE IF b.all_trees = <<>>
            THEN FinishCompute([c EXCEPT !.stack = b.stack], token, None)
        ELSE Computing(c, b.stack, b.all_trees, <<>>)
    ELSE IF token.type = "Flush" THEN
        LET b == ClipAll(c.stack, c.table, <<>>) IN
        IF b.fault # "" THEN Died(c, b.stack, c.table, b.fault)
        ELSE Proceed([c EXCEPT !.stack = b.stack], token, b.all_trees, <<>>)
    ELSE IF token.type = "Print"
        THEN Done(c, c.stack, c.table, <<Line(PrintLoop(c.stack, 1))>>)
    ELSE IF token.type = "Empty" THEN Done(c, <<>>, c.table, <<>>)
    ELSE IF token.type = "AssignFunction"
        THEN assign_function(c, token.name, token.arity)
    ELSE IF token.type = "AssignIterative"
        THEN assign_iterative(c, token.name, token.arity)
    ELSE IF token.type = "Drop" THEN
        LET d == DropLoop(c.stack, c.table, 1) IN
        IF d.panic THEN Died(c, d.stack, c.table, "Drop: Corrupted stack")
        ELSE Done(c, d.stack, c.table, <<>>)
    ELSE Done(c, Append(c.stack, token), c.table, <<>>)

\* Calculator::analyze, up to the first reduce() of the handler if it has one
analyze(c, token) ==
    IF token.type = "Error"
        THEN Done(c, c.stack, c.table, <<Line("Dropped unrecognized token!")>>)
    ELSE IF token.type \in ComputeTypes THEN
        LET b == ComputeBegin(c.stack, c.table) IN
        IF b.fault # "" THEN Died(c, b.stack, c.table, b.fault)
        ELSE IF b.all_trees = <<>>
            THEN FinishCompute([c EXCEPT !.stack = b.stack], token, None)
        ELSE Computing(c, b.stack, b.all_trees, <<>>)
    ELSE IF token.type = "Flush" THEN
        LET b == ClipAll(c.stack, c.table, <<>>) IN
        IF b.fault # "" THEN Died(c, b.stack, c.table, b.fault)
        ELSE Proceed([c EXCEPT !.stack = b.stack], token, b.all_trees, <<>>)
    ELSE IF token.type = "Print"
        THEN Done(c, c.stack, c.table, <<Line(PrintLoop(c.stack, 1))>>)
    ELSE IF token.type = "Empty" THEN Done(c, <<>>, c.table, <<>>)
    ELSE IF token.type = "AssignFunction"
        THEN assign_function(c, token.name, token.arity)
    ELSE IF token.type = "AssignIterative"
        THEN assign_iterative(c, token.name, token.arity)
    ELSE IF token.type = "Drop" THEN
        LET d == DropLoop(c.stack, c.table, 1) IN
        IF d.panic THEN Died(c, d.stack, c.table, "Drop: Corrupted stack")
        ELSE Done(c, d.stack, c.table, <<>>)
    ELSE Done(c, Append(c.stack, token), c.table, <<>>)

\* the native stack the model gives reduce(); the process dies beyond it
MaxDepth == 32

\* one transition of the evaluator inside the handler of token; when the
\* outermost reduce() returns, the handler goes on
reduce_step(c, token) ==
    LET m == StepM([frames |-> c.frames, ret |-> c.ret, panic |-> ""], c.table)
        d == [c EXCEPT !.frames = m.frames, !.ret = m.ret]
    IN
    IF m.panic # "" THEN [d EXCEPT !.status = m.panic]
    ELSE IF Len(m.frames) > MaxDepth THEN [d EXCEPT !.status = "stack overflow"]
    ELSE IF m.frames # <<>> THEN d
    ELSE Proceed(d, token, c.job.all_trees, Append(c.job.results, m.ret))

\* the evaluator steps a line is given before the model calls it hung
MaxSteps == 60

\* a whole handler: analyze(token) and the reductions it waits for
RECURSIVE RunHandler(_, _, _)
RunHandler(c, token, fuel) ==
    IF c.status # "computing" THEN c
    ELSE IF fuel = 0 THEN [c EXCEPT !.status = "hung"]
    ELSE RunHandler(reduce_step(c, token), token, fuel - 1)

\* Calculator::parse without the report: the tokens of a line in turn
RECURSIVE Feed(_, _, _)
Feed(c, tokens, k) ==
    IF k > Len(tokens) \/ c.status # "ready" THEN c
    ELSE Feed(RunHandler(analyze(c, tokens[k]), tokens[k], MaxSteps), tokens, k + 1)

\* Calculator::new
New ==
    [stack |-> <<>>, table |-> <<>>, out |-> <<>>, status |-> "ready",
     frames |-> <<>>, ret |-> None, job |-> NoJob]

-----------------------------------------------------------------------------
(* The calculator fed one token at a time: Calculator::parse is any number  *)
(* of analyze(token), then the report of the stack's length.  It starts     *)
(* from what a first line has left, as main() starts the prompt from what   *)
(* the library has left.                                                    *)

\* the tokens fed after the first line
MaxTokens == 3

Names == {"f"}
Arities == {0, 1}
Pushable ==
    {Number(Zero), Number(One), Argument(0), Op("PositiveMinus"), Op("If")}
    \cup {Identifier(n) : n \in Names}

f == Identifier("f")
n0 == Number(Zero)
n1 == Number(One)
a0 == Argument(0)

FirstLines ==
    { <<>>,
      <<n0, n1, n0>>,
      <<n0, Op("If")>>,
      <<a0, n1, Op("PositiveMinus"), Op("Return")>>,
      <<a0, AssignFunction("f", 1), a0, f, Op("Return")>>,
      <<a0, AssignFunction("f", 1)>>,
      <<f, AssignFunction("f", 0)>>,
      <<f, n0, Op("PositiveMinus"), AssignFunction("f", 0)>>,
      <<n1, AssignVariable("f")>>,
      <<a0, n1, Op("PositiveMinus"), a0, a0, AssignIterative("f", 1)>>,
      <<n1, n1, AssignIterative("f", 0)>> }

NoToken == [type |-> "Start"]
EndOfLine == [type |-> "EndOfLine"]

\* the calculator the variables hold
Calc ==
    [stack |-> stack, table |-> table, out |-> out, status |-> status,
     frames |-> frames, ret |-> ret, job |-> job]

Becomes(c) ==
    /\ stack' = c.stack
    /\ table' = c.table
    /\ out' = c.out
    /\ status' = c.status
    /\ frames' = c.frames
    /\ ret' = c.ret
    /\ job' = c.job

Init ==
    /\ line \in FirstLines
    /\ LET c == Feed(New, line, 1) IN
        /\ stack = c.stack
        /\ table = c.table
        /\ status = c.status
    /\ out = <<>>
    /\ frames = <<>>
    /\ ret = None
    /\ job = NoJob
    /\ last = NoToken
    /\ fed = 0
    /\ slice = <<>>
    /\ number = <<>>

\* analyze(token)
\* one turn of the for loop of Calculator::parse: self.analyze(token)
Submit(token) ==
    /\ status = "ready"
    /\ fed' = fed + 1
    /\ last' = token
    /\ Becomes(analyze(Calc, token))
    /\ UNCHANGED <<line, slice, number>>

Handle(token) == fed < MaxTokens /\ Submit(token)

AnalyzePush == \E t \in Pushable : Handle(t)
AnalyzeError == Handle(Op("Error"))
AnalyzeReturn == Handle(Op("Return"))
AnalyzeFormat == Handle(Op("Format"))
AnalyzeApprox == Handle(Op("Approx"))
AnalyzePartial == Handle(Op("Partial"))
AnalyzeDuplicate == Handle(Op("Duplicate"))
AnalyzeFlush == Handle(Op("Flush"))
AnalyzePrint == Handle(Op("Print"))
AnalyzeEmpty == Handle(Op("Empty"))
AnalyzeDrop == Handle(Op("Drop"))
AnalyzeAssignVariable == \E n \in Names : Handle(AssignVariable(n))
AnalyzeAssignFunction ==
    \E n \in Names, a \in Arities : Handle(AssignFunction(n, a))
AnalyzeAssignIterative ==
    \E n \in Names, a \in Arities : Handle(AssignIterative(n, a))

\* the evaluator takes a step inside the handler at work
ReduceStep ==
    /\ status = "computing"
    /\ Becomes(reduce_step(Calc, last))
    /\ UNCHANGED <<last, line, fed, slice, number>>

\* an end of line that prints its report once more
EndLineTwice ==
    /\ status = "ready"
    /\ out' = <<Line(ToString(Len(stack)) \o " elements in stack"),
               Line(ToString(Len(stack)) \o " elements in stack")>>
    /\ last' = EndOfLine
    /\ UNCHANGED <<stack, table, status, frames, ret, job, line, fed,
                   slice, number>>

\* the end of a line: println!("{} elements in stack", self.stack.len())
EndLine ==
    /\ status = "ready"
    /\ out' = <<Line(ToString(Len(stack)) \o " elements in stack")>>
    /\ last' = EndOfLine
    /\ UNCHANGED <<stack, table, status, frames, ret, job, line, fed,
                   slice, number>>

Next ==
    \/ AnalyzePush
    \/ AnalyzeError
    \/ AnalyzeReturn
    \/ AnalyzeFormat
    \/ AnalyzeApprox
    \/ AnalyzePartial
    \/ AnalyzeDuplicate
    \/ AnalyzeFlush
    \/ AnalyzePrint
    \/ AnalyzeEmpty
    \/ AnalyzeDrop
    \/ AnalyzeAssignVariable
    \/ AnalyzeAssignFunction
    \/ AnalyzeAssignIterative
    \/ ReduceStep
    \/ EndLine

Spec == Init /\ [][Next]_vars

\* the session under the fairness of a running process: the evaluator takes
\* its next step, the loop of parse its next turn, and the line its end
LiveSpec == Spec /\ WF_vars(Next)

-----------------------------------------------------------------------------
(* Whole lines submitted to a fresh calculator, one token at a time.        *)

Num(n) == Number(RInt(n))
x == Identifier("x")
y == Identifier("y")
nfib == Identifier("nfib")

\* 1 =x x f|0 2 =x f =
LateRebound ==
    <<n1, AssignVariable("x"), x, AssignFunction("f", 0), Num(2),
      AssignVariable("x"), f, Op("Return")>>
\* x f|0 3 =x f =
LateUnbound ==
    <<x, AssignFunction("f", 0), Num(3), AssignVariable("x"), f, Op("Return")>>
\* 1 x|0 x f|0 2 x|0 f =
LateRedefined ==
    <<n1, AssignFunction("x", 0), x, AssignFunction("f", 0), Num(2),
      AssignFunction("x", 0), f, Op("Return")>>
\* $0 x|1 5 x f|0 7 =x f =
LateVariableForFunction ==
    <<a0, AssignFunction("x", 1), Num(5), x, AssignFunction("f", 0), Num(7),
      AssignVariable("x"), f, Op("Return")>>

\* the test programs in the comment above impl ExecTree
\* $0 1 ~ nfib $0 2 ~ nfib + $0 $0 1 ~ ? nfib|1
NaiveFibonacci ==
    <<a0, n1, Op("PositiveMinus"), nfib, a0, Num(2), Op("PositiveMinus"), nfib,
      Op("Plus"), a0, a0, n1, Op("PositiveMinus"), Op("If"),
      AssignFunction("nfib", 1)>>
\* $1 $0 $1 + $2 1 ~ fib_rec $1 $2 ? fib_rec|3 1 0 $0 fib_rec tfib|1
TailRecursiveFibonacci ==
    <<Argument(1), a0, Argument(1), Op("Plus"), Argument(2), n1,
      Op("PositiveMinus"), Identifier("fib_rec"), Argument(1), Argument(2),
      Op("If"), AssignFunction("fib_rec", 3),
      n1, n0, a0, Identifier("fib_rec"), AssignFunction("tfib", 1)>>
\* $1 $0 $1 + $2 1 ~ $1 $2 fib_aux@3 1 0 $0 fib_aux fib|1
IterativeFibonacci ==
    <<Argument(1), a0, Argument(1), Op("Plus"), Argument(2), n1,
      Op("PositiveMinus"), Argument(1), Argument(2),
      AssignIterative("fib_aux", 3),
      n1, n0, a0, Identifier("fib_aux"), AssignFunction("fib", 1)>>

\* the largest n the three are all asked for
MaxFib == 10

\* n nfib =, n tfib = and n fib = after the definitions, and 30 tfib =,
\* 30 fib =
FibScripts ==
    {NaiveFibonacci \o <<Num(n), nfib, Op("Return")>> : n \in 0..MaxFib}
    \cup {TailRecursiveFibonacci \o <<Num(n), Identifier("tfib"), Op("Return")>> :
            n \in 0..MaxFib \cup {30}}
    \cup {IterativeFibonacci \o <<Num(n), Identifier("fib"), Op("Return")>> :
            n \in 0..MaxFib \cup {30}}

\* definitions of iteratives over a number that is to stay below them:
\* 7 $1 $0 1 0 g@2
\* 7 $1 $0 $2 1 ~ $1 $2 swap@3
\* 5 $0 h 1 $0 h@1
IterativeScripts ==
    { <<Num(7), Argument(1), a0, n1, n0, AssignIterative("g", 2)>>,
      <<Num(7), Argument(1), a0, Argument(2), n1, Op("PositiveMinus"),
        Argument(1), Argument(2), AssignIterative("swap", 3)>>,
      <<Num(5), a0, Identifier("h"), n1, a0, AssignIterative("h", 1)>> }

g == Identifier("g")

\* lines that redefine g with another arity after f was built on it:
\* $0 g|1 1 g f|0 $0 $1 + g|2 f =
\* $0 g|1 1 g f|0 2 3 + 0 g@0 f =
\* $0 $1 - g|2 1 2 g f|0 $0 $0 + g|1 f =
\* $0 g|1 1 g 1 * f|0 $0 $1 + g|2 f =
\* $0 g|1 1 g 1 1 ? f|0 $0 $1 + g|2 f =
StaleScripts ==
    { <<a0, AssignFunction("g", 1), n1, g, AssignFunction("f", 0),
        a0, Argument(1), Op("Plus"), AssignFunction("g", 2), f, Op("Return")>>,
      <<a0, AssignFunction("g", 1), n1, g, AssignFunction("f", 0),
        Num(2), Num(3), Op("Plus"), n0, AssignIterative("g", 0), f, Op("Return")>>,
      <<a0, Argument(1), Op("Minus"), AssignFunction("g", 2), n1, Num(2), g,
        AssignFunction("f", 0),
        a0, a0, Op("Plus"), AssignFunction("g", 1), f, Op("Return")>>,
      <<a0, AssignFunction("g", 1), n1, g, n1, Op("Times"), AssignFunction("f", 0),
        a0, Argument(1), Op("Plus"), AssignFunction("g", 2), f, Op("Return")>>,
      <<a0, AssignFunction("g", 1), n1, g, n1, n1, Op("If"), AssignFunction("f", 0),
        a0, Argument(1), Op("Plus"), AssignFunction("g", 2), f, Op("Return")>> }

Scripts ==
    FibScripts \cup IterativeScripts \cup StaleScripts \cup
    { LateRebound, LateUnbound, LateRedefined, LateVariableForFunction,
      <<n0, n1, n0, Op("If"), Op("Return")>>,
      <<n1, n1, n0, Op("If"), Op("Return")>>,
      <<n1, n0, n1, Op("If"), Op("Return")>>,
      <<Num(2), Num(3), Op("Plus"), Op("Return")>>,
      <<n1, Num(2), Op("Divide"), n1, Num(3), Op("Divide"), Op("Plus"),
        Op("Return")>>,
      <<Num(5), AssignVariable("x"), Num(4), AssignVariable("y"), x, y,
        Op("Times"), Op("Return")>>,
      <<a0, n1, Op("PositiveMinus"), nfib, a0, Num(2), Op("PositiveMinus"), nfib,
        Op("Plus"), a0, a0, n1, Op("PositiveMinus"), Op("If"),
        AssignFunction("nfib", 1), Num(10), nfib, Op("Return")>> }

ScriptInit ==
    /\ line \in Scripts
    /\ stack = New.stack
    /\ table = New.table
    /\ out = New.out
    /\ status = New.status
    /\ frames = New.frames
    /\ ret = New.ret
    /\ job = New.job
    /\ last = NoToken
    /\ fed = 0
    /\ slice = <<>>
    /\ number = <<>>

\* the next token of the line
ScriptToken == fed < Len(line) /\ Submit(line[fed + 1])

\* the line is through: the report
ScriptEnd == fed = Len(line) /\ EndLine

ScriptNext ==
    \/ ScriptToken
    \/ ReduceStep
    \/ ScriptEnd

ScriptSpec == ScriptInit /\ [][ScriptNext]_vars

\* the line under the fairness of a running evaluator: reduce() takes its
\* next step
ScriptLiveSpec == ScriptSpec /\ WF_vars(ReduceStep)

-----------------------------------------------------------------------------
(* The evaluator alone: tree.reduce(table, args) for the trees of a set of  *)
(* expressions, under a table of definitions.                               *)

\* the longest count a call is given
MaxCount == 4

loop == Identifier("loop")
down == Identifier("down")
swap == Identifier("swap")
bad == Identifier("bad")
late == Identifier("late")
sub == Identifier("sub")
inc == Identifier("inc")
both == Identifier("both")
unit == Identifier("unit")

\* loop loop|0
\* $0 1 ~ down 0 $0 ? down|1
\* $1 $0 $2 1 ~ $1 $2 swap@3
\* $0 $0 1 0 / bad@1
\* $0 1 ~ $0 1 $0 / late@1
\* $0 $1 - sub|2
\* $0 1 + inc|1
\* $0 inc $0 1 sub + $0 * both|1
\* 1 unit|1
EvalPrelude ==
    <<loop, AssignFunction("loop", 0)>>
    \o <<a0, n1, Op("PositiveMinus"), down, n0, a0, Op("If"),
         AssignFunction("down", 1)>>
    \o <<Argument(1), a0, Argument(2), n1, Op("PositiveMinus"), Argument(1),
         Argument(2), AssignIterative("swap", 3)>>
    \o <<a0, a0, n1, n0, Op("Divide"), AssignIterative("bad", 1)>>
    \o <<a0, n1, Op("PositiveMinus"), a0, n1, a0, Op("Divide"),
         AssignIterative("late", 1)>>
    \o <<a0, Argument(1), Op("Minus"), AssignFunction("sub", 2)>>
    \o <<a0, n1, Op("Plus"), AssignFunction("inc", 1)>>
    \o <<a0, inc, a0, n1, sub, Op("Plus"), a0, Op("Times"),
         AssignFunction("both", 1)>>
    \o <<n1, AssignFunction("unit", 1)>>

EvalTable == Feed(New, EvalPrelude, 1).table

\* the arms and conditions of the If expressions
Arms ==
    { <<n0>>, <<n1>>, <<Num(2)>>, <<a0>>, <<Identifier("undefined")>>,
      <<n1, n0, Op("Divide")>>, <<Argument(1)>>, <<loop>> }

\* the operands of the operators: 1, $0, and what fails: an unbound name,
\* $1, 1 0 / and 1 0 \
Leaves ==
    { <<n1>>, <<a0>>, <<Identifier("undefined")>>, <<Argument(1)>>,
      <<n1, n0, Op("Divide")>>, <<n1, n0, Op("IntegerDiv")>> }

Counts == {Num(n) : n \in 0..MaxCount}

Expressions ==
    {t \o e \o c \o <<Op("If")>> : t \in Arms, e \in Arms, c \in Arms}
    \cup {<<n, down>> : n \in Counts}
    \cup {<<loop>>}
    \cup {<<a, b, n, swap>> : a \in {n0, n1}, b \in {n0, n1}, n \in Counts}
    \cup {<<n, bad>> : n \in Counts}
    \cup {<<n, late>> : n \in Counts}
    \cup {<<Identifier("undefined"), late>>}
    \cup {a \o b \o <<Op(type)>> : a \in Leaves, b \in Leaves, type \in BinaryTypes}
    \cup {a \o b \o c \o <<Op("ExpMod")>> : a \in Leaves, b \in Leaves, c \in Leaves}
    \cup {<<n1, n1>> \o c \o <<Op("If")>> : c \in Leaves}
    \cup {a \o <<n1, Op("Plus"), n1, Op("Plus")>> : a \in Leaves}
    \cup {a \o <<down>> : a \in Leaves}
    \cup {a \o <<bad>> : a \in Leaves}
    \cup {<<n0>> \o a \o <<n1, swap>> : a \in Leaves}
    \cup {a \o b \o <<sub>> : a \in Leaves \cup {<<Num(2)>>}, b \in Leaves}
    \cup {a \o <<inc, a0, Op("Minus")>> : a \in Leaves \cup {<<Num(2)>>}}
    \cup {a \o <<both>> : a \in Leaves \cup {<<Num(2)>>}}
    \cup {<<a0, a0, inc, sub, a0, both, Op("Minus")>>}
    \cup {a \o <<unit>> : a \in Leaves}

EvalArgs == {<<Zero>>, <<One>>}

EvalInit ==
    /\ line \in Expressions
    /\ table = EvalTable
    /\ \E args \in EvalArgs :
        LET tree == parse_tree(line, table).tree IN
        /\ job = [all_trees |-> <<tree>>, results |-> <<>>, args |-> args]
        /\ frames = <<Frame(tree, args)>>
    /\ status = "reducing"
    /\ ret = None
    /\ stack = <<>>
    /\ out = <<>>
    /\ last = NoToken
    /\ fed = 0
    /\ slice = <<>>
    /\ number = <<>>

\* one transition of tree.reduce(table, args)
Reducing ==
    /\ status = "reducing"
    /\ LET m == StepM([frames |-> frames, ret |-> ret, panic |-> ""], table) IN
        /\ frames' = m.frames
        /\ ret' = m.ret
        /\ status' = IF m.panic # "" THEN m.panic
                     ELSE IF Len(m.frames) > MaxDepth THEN "stack overflow"
                     ELSE IF m.frames = <<>> THEN "returned"
                     ELSE "reducing"
        /\ job' = IF m.panic = "" /\ m.frames = <<>>
                  THEN [job EXCEPT !.results = <<m.ret>>]
                  ELSE job
    /\ UNCHANGED <<stack, table, last, out, line, fed, slice, number>>

EvalSpec == EvalInit /\ [][Reducing]_vars /\ WF_vars(Reducing)

-----------------------------------------------------------------------------
(* String literals: strings.rs. An Int of ramp is kept as the sequence of  *)
(* its base-256 digits, the least significant first and the most           *)
(* significant not zero; the u64 of from_string is kept the same way.      *)

\* Int::zero()
IntZero == <<>>

RECURSIVE Normal(_)
\* the digits without the zeros at the most significant end
Normal(digits) ==
    IF digits = <<>> THEN <<>>
    ELSE IF digits[Len(digits)] = 0 THEN Normal(SubSeq(digits, 1, Len(digits) - 1))
    ELSE digits

\* u64::from(ch) of a byte
IntFrom(ch) == Normal(<<ch % 256>>)

\* num <<= 8 * bytes
ShiftLeft(num, bytes) ==
    IF num = <<>> THEN <<>> ELSE [i \in 1..bytes |-> 0] \o num

RECURSIVE AddCarry(_, _, _)
\* the digits of a + b + carry
AddCarry(a, b, carry) ==
    IF a = <<>> /\ b = <<>> THEN (IF carry = 0 THEN <<>> ELSE <<carry>>)
    ELSE
        LET da == IF a = <<>> THEN 0 ELSE Head(a)
            db == IF b = <<>> THEN 0 ELSE Head(b)
            sum == da + db + carry
        IN  <<sum % 256>> \o AddCarry(IF a = <<>> THEN a ELSE Tail(a),
                                      IF b = <<>> THEN b ELSE Tail(b),
                                      sum \div 256)

\* num += other
IntAdd(num, other) == Normal(AddCarry(num, other, 0))

\* from_hex(hex): the value of a hexadecimal digit, 0 for any other byte
from_hex(hex) ==
    IF hex >= 48 /\ hex <= 57 THEN hex - 48
    ELSE IF hex >= 65 /\ hex <= 90 THEN hex - 55
    ELSE IF hex >= 97 /\ hex <= 122 THEN hex - 87
    ELSE 0

\* the match on the byte after a backslash: the byte of a shortcut escape,
\* or -1 for the first digit of a hex escape
Shortcut(ch) ==
    CASE ch = 110 -> 10
      [] ch = 114 -> 13
      [] ch = 116 -> 9
      [] ch = 92 -> 92
      [] ch = 34 -> 34
      [] OTHER -> -1

RECURSIVE ParseEscapes(_, _, _, _, _, _)
\* the for loop of from_string over the bytes between the quotes
ParseEscapes(bytes, at, esc, esc2, prev, stk) ==
    IF at > Len(bytes) THEN stk
    ELSE
        LET ch == bytes[at] IN
        IF ~esc THEN
            IF ch # 92 THEN ParseEscapes(bytes, at + 1, esc, esc2, prev, Append(stk, ch))
            ELSE ParseEscapes(bytes, at + 1, TRUE, esc2, prev, stk)
        ELSE IF ~esc2 THEN
            IF Shortcut(ch) # -1
            THEN ParseEscapes(bytes, at + 1, FALSE, esc2, prev,
                              Append(stk, Shortcut(ch)))
            ELSE ParseEscapes(bytes, at + 1, TRUE, TRUE,
                              (from_hex(ch) * 16) % 256, stk)
        ELSE ParseEscapes(bytes, at + 1, FALSE, FALSE, prev,
                          Append(stk, (prev + from_hex(ch)) % 256))

RECURSIVE PackWord(_, _, _)
\* the inner while of from_string: at most 8 bytes popped into partial
PackWord(stk, partial, count) ==
    IF count # 8 /\ stk # <<>>
    THEN PackWord(SubSeq(stk, 1, Len(stk) - 1),
                  IntAdd(ShiftLeft(partial, 1), IntFrom(stk[Len(stk)])),
                  count + 1)
    ELSE [stack |-> stk, partial |-> partial, count |-> count]

RECURSIVE PackWordsAbove(_, _)
\* a packing that puts each later word above the digits it has
PackWordsAbove(stk, num) ==
    IF stk = <<>> THEN num
    ELSE
        LET word == PackWord(stk, IntZero, 0) IN
        PackWordsAbove(word.stack,
                       IntAdd(num, ShiftLeft(word.partial, Len(num))))

RECURSIVE PackWords(_, _)
\* the outer while of from_string: room is made in num for each word, which
\* is added
PackWords(stk, num) ==
    IF stk = <<>> THEN num
    ELSE
        LET word == PackWord(stk, IntZero, 0) IN
        PackWords(word.stack, IntAdd(ShiftLeft(num, word.count), word.partial))

\* from_string(string): the numerator of the Rational it returns
from_string(string) ==
    PackWords(ParseEscapes(SubSeq(string, 2, Len(string) - 1), 1, FALSE, FALSE,
                           0, <<>>),
              IntZero)

\* what the pattern of the string literal lets stand between the quotes: a
\* byte that is no quote and no backslash, \n, \t, \\, \", and \HH
Chars ==
    { <<97>>, <<98>>, <<92, 110>>, <<92, 116>>, <<92, 92>>, <<92, 34>>,
      <<92, 52, 49>>, <<92, 102, 70>>, <<92, 48, 48>> }

MaxChars == 3

RECURSIVE Strings(_)
\* the strings of at most n of these
Strings(n) ==
    IF n = 0 THEN {<<>>}
    ELSE Strings(n - 1) \cup {s \o c : s \in Strings(n - 1), c \in Chars}

\* eight bytes, a word of from_string
Word == <<97, 98, 97, 98, 97, 98, 97, 98>>

\* the literals lexed: the short ones, and ones of one word and of two words
\* with at most one more character before or after
Slices ==
    { <<34>> \o s \o <<34>> :
        s \in Strings(MaxChars)
            \cup {p \o Word \o q : p, q \in Strings(1)}
            \cup {p \o Word \o Word \o q : p, q \in Strings(1)} }

LexInit ==
    /\ slice \in Slices
    /\ number = IntZero
    /\ status = "lexing"
    /\ stack = New.stack
    /\ table = New.table
    /\ out = New.out
    /\ frames = New.frames
    /\ ret = New.ret
    /\ job = New.job
    /\ last = NoToken
    /\ line = <<>>
    /\ fed = 0

\* the callback of the pattern: from_string(lex.slice())
Lex ==
    /\ status = "lexing"
    /\ number' = from_string(slice)
    /\ status' = "lexed"
    /\ UNCHANGED <<stack, table, last, out, frames, ret, job, line, fed, slice>>

\* Format on the literal: the Number is computed to itself, its denominator
\* is one, and the bytes of Stringer::from(num) are written with a newline
FormatLiteral ==
    /\ status = "lexed"
    /\ out' = <<Bytes(Stringer(number))>>
    /\ status' = "formatted"
    /\ last' = Op("Format")
    /\ UNCHANGED <<stack, table, frames, ret, job, line, fed, slice, number>>

LexNext ==
    \/ Lex
    \/ FormatLiteral

LexSpec == LexInit /\ [][LexNext]_vars

-----------------------------------------------------------------------------
(* Claims about the dispatcher.                                             *)

CorruptedPanics ==
    {"extract_function: Corrupted stack", "clip_head: Corrupted stack",
     "Drop: Corrupted stack", "parse_tree: Corrupted stack",
     "parse_tree: split_off", "parse_tree: unwrap",
     "reduce: Corrupted stack", "reduce index"}

\* C1: whatever tokens are submitted, none of the internal aborts is reached:
\* not the "Corrupted stack" panics of the extractors, of Drop, of the tree
\* builder and of the evaluator, not the unwrap of the tree builder's last
\* pop (nor an underflow of its split_off or an index past a node's children)
C1_NoInternalAbort == status \notin CorruptedPanics

\* a definition that calls itself has replaced a function of another arity:
\* its body was built against the arity of the assignment
C1_Witness ==
    /\ status = "ready"
    /\ line = <<a0, AssignFunction("f", 1)>>
    /\ last = AssignFunction("f", 0)
    /\ "f" \in DOMAIN table
    /\ table["f"] = Function(0, ExecTree(f, <<>>))

Report == <<Line(ToString(Len(stack)) \o " elements in stack")>>

\* C2 as it is stated: every line is processed to its end and the report
\* printed once - the session comes to rest after the report of its last line
C2_EveryLineReports == <>[](last = EndOfLine /\ out = Report)

\* C2: a session comes to rest after the report of its last line, printed
\* once, unless an evaluation never returns or the process has died in one
C2_ReportsUnlessEvaluationHangsOrDies ==
    \/ <>[](last = EndOfLine /\ out = Report)
    \/ <>[](status = "computing")
    \/ <>(status \notin {"ready", "computing"})

\* a line that has evaluated a call of a user function to 1, and kept it, has
\* been reported
C2_Witness ==
    /\ last = EndOfLine
    /\ out = Report
    /\ line = <<a0, AssignFunction("f", 1)>>
    /\ "f" \in DOMAIN table
    /\ table["f"] = Function(1, ExecTree(a0, <<>>))
    /\ ret = One
    /\ stack = <<Number(One)>>

StackTypes == {"Identifier", "Number", "Argument"} \cup BinaryTypes \cup TernaryTypes

\* C3: the working stack holds only identifiers, numbers, arguments and
\* binary or ternary operators; never Error, an action token or an assignment
C3_StackTokens == \A i \in 1..Len(stack) : stack[i].type \in StackTypes

\* tokens of the other kinds have been handled and the stack is not empty
C3_Witness ==
    /\ Len(stack) > 0
    /\ fed = MaxTokens
    /\ last.type \in {"Error", "Print", "AssignIterative", "Flush"}

ExtractingTypes == ComputeTypes \cup {"AssignFunction"}

\* the extraction the handler of token starts with finds no expression
CannotExtract(stk, tbl, token) ==
    IF token.type = "AssignFunction"
    THEN extract_function(stk, tbl, token.name, token.arity, Len(stk)).kind = "NotFound"
    ELSE LET c == clip_head(stk, tbl) IN ~c.panic /\ Len(c.expression) = 0

\* C10: when Return, Partial, Approx, Format, Duplicate, AssignVariable or
\* AssignFunction finds no complete expression on top of the stack, the
\* stack and the table after the token are what they were before it
C10_FailedExtractionKeepsState ==
    [][(fed' = fed + 1 /\ last'.type \in ExtractingTypes
        /\ CannotExtract(stack, table, last'))
       => (stack' = stack /\ table' = table)]_vars

\* an evaluation has found the stack, which is not empty, incomplete
C10_Witness ==
    /\ last.type \in ExtractingTypes
    /\ Len(stack) > 1
    /\ "f" \in DOMAIN table
    /\ CannotExtract(stack, table, last)
    /\ \/ out = <<Line("Incomplete expression")>>
       \/ out = <<Line("Incomplete function declaration")>>

\* the line is through its Return, which has printed
Printed(tokens) ==
    line = tokens /\ fed = Len(line) /\ last = Op("Return") /\ status = "ready"

\* C5 as it is stated: 0 1 0 ? = prints > 0, 1 1 0 ? = prints > 1 and
\* 1 0 1 ? = prints > 1
C5_AsStated ==
    /\ Printed(<<n0, n1, n0, Op("If"), Op("Return")>>) => out = <<Line("> 0")>>
    /\ Printed(<<n1, n1, n0, Op("If"), Op("Return")>>) => out = <<Line("> 1")>>
    /\ Printed(<<n1, n0, n1, Op("If"), Op("Return")>>) => out = <<Line("> 1")>>

\* C5: on a fresh calculator 0 1 0 ? = prints > 1 (the condition is zero and
\* the else arm is 1), 1 1 0 ? = prints > 1 and 1 0 1 ? = prints > 1
C5_IfLines ==
    /\ Printed(<<n0, n1, n0, Op("If"), Op("Return")>>) => out = <<Line("> 1")>>
    /\ Printed(<<n1, n1, n0, Op("If"), Op("Return")>>) => out = <<Line("> 1")>>
    /\ Printed(<<n1, n0, n1, Op("If"), Op("Return")>>) => out = <<Line("> 1")>>

\* 0 1 0 ? = has printed
C5_Witness ==
    /\ Printed(<<n0, n1, n0, Op("If"), Op("Return")>>)
    /\ out = <<Line("> 1")>>

\* the step is the handler of a computing token that has split an expression
\* off the stack
Extracts ==
    /\ fed' = fed + 1
    /\ last'.type \in ComputeTypes
    /\ Len(clip_head(stack, table).expression) > 0

\* the step is the return of the reduction of a computing token
Reduced(types) ==
    /\ status = "computing"
    /\ last.type \in types
    /\ status' = "ready"

\* C11: when Return, Partial, Approx, Format, Duplicate or AssignVariable has
\* extracted stack[j..end) and its reduction is None, the stack is left as
\* stack[0..j), without a Number pushed, and the table as it was
C11_NoneReductionAborts ==
    [][/\ Extracts => (stack' = clip_head(stack, table).stack /\ table' = table)
       /\ (Reduced(ComputeTypes) /\ is_none(ret'))
            => (stack' = stack /\ table' = table)]_vars

\* 1 f = with f unbound: f was split off and reduced to None, 1 is left
C11_Witness ==
    /\ line = <<>>
    /\ fed = 3
    /\ last = Op("Return")
    /\ status = "ready"
    /\ stack = <<Number(One)>>
    /\ "f" \notin DOMAIN table
    /\ out = <<Line("Incomplete expression")>>

\* C12: when the top of the stack stack[j..end) reduces to v, Partial leaves
\* stack[0..j) and one Number(v), Duplicate leaves stack[0..j) and two
\* Number(v); the table is as it was
C12_ResultPushedBack ==
    [][/\ Extracts => (stack' = clip_head(stack, table).stack /\ table' = table)
       /\ (Reduced({"Partial"}) /\ ~is_none(ret'))
            => (stack' = stack \o <<Number(ret')>> /\ table' = table)
       /\ (Reduced({"Duplicate"}) /\ ~is_none(ret'))
            => (stack' = stack \o <<Number(ret'), Number(ret')>> /\ table' = table)]_vars

\* 0 1 0 then ! and <: the 0 on top is dropped, the 1 is duplicated
C12_Witness ==
    /\ line = <<n0, n1, n0>>
    /\ fed = 2
    /\ last = Op("Duplicate")
    /\ status = "ready"
    /\ ret = One
    /\ stack = <<Number(Zero), Number(One), Number(One)>>

\* the step is the handler of an AssignIterative that does not find arity + 2
\* expressions
IterativeNotFound ==
    /\ fed' = fed + 1
    /\ last'.type = "AssignIterative"
    /\ ~IndicesLoop(stack, table, last'.name, last'.arity, Len(stack),
                    last'.arity + 2).found

\* C13: when AssignIterative cannot extract its arity + 2 expressions and the
\* name was bound, the name is bound to the same object afterwards and the
\* stack is unchanged
C13_FailedIterativeKeepsBinding ==
    [][(IterativeNotFound /\ last'.name \in DOMAIN table)
       => (/\ last'.name \in DOMAIN table'
           /\ table'[last'.name] = table[last'.name]
           /\ table' = table
           /\ stack' = stack)]_vars

\* 1 =f has bound f; a later f@1 on a stack too short has failed
C13_Witness ==
    /\ line = <<n1, AssignVariable("f")>>
    /\ last = AssignIterative("f", 1)
    /\ Len(stack) > 0
    /\ table["f"] = Variable(One)
    /\ out = <<Line("Incomplete function declaration")>>

\* C14: when AssignIterative cannot extract its arity + 2 expressions and the
\* name was not bound, the name is not bound afterwards (no placeholder is
\* left) and the stack is unchanged
C14_FailedIterativeBindsNothing ==
    [][(IterativeNotFound /\ last'.name \notin DOMAIN table)
       => (last'.name \notin DOMAIN table' /\ stack' = stack)]_vars

RECURSIVE Postfix(_)
RECURSIVE PostfixAll(_, _)
\* the tokens of a tree, the children of a node before the node
Postfix(tree) == PostfixAll(tree.arguments, 1) \o <<tree.token>>
PostfixAll(trees, k) ==
    IF k > Len(trees) THEN <<>> ELSE Postfix(trees[k]) \o PostfixAll(trees, k + 1)

RECURSIVE CallsHave(_, _, _)
\* every node of the tree that is Identifier(name) has n children
CallsHave(tree, name, n) ==
    /\ tree.token = Identifier(name) => Len(tree.arguments) = n
    /\ \A i \in 1..Len(tree.arguments) : CallsHave(tree.arguments[i], name, n)

\* the step is the handler of an AssignFunction that finds its expression
FunctionFound ==
    /\ fed' = fed + 1
    /\ last'.type = "AssignFunction"
    /\ extract_function(stack, table, last'.name, last'.arity, Len(stack)).kind
        = "FoundAt"

\* C15: when AssignFunction(name, n) finds stack[j..end), the name is bound
\* afterwards to Function(n, tree), where tree is the tree of the slice and
\* every Identifier(name) in it has n children, whatever the name was bound
\* to; the other names are bound as before and the stack is stack[0..j)
C15_FunctionAssigned ==
    [][FunctionFound =>
        LET name == last'.name
            j == extract_function(stack, table, name, last'.arity, Len(stack)).index
        IN  /\ stack' = Front(stack, j)
            /\ DOMAIN table' = DOMAIN table \cup {name}
            /\ \A other \in DOMAIN table : other # name => table'[other] = table[other]
            /\ table'[name].kind = "Function"
            /\ table'[name].arity = last'.arity
            /\ Postfix(table'[name].body) = Back(stack, j)
            /\ CallsHave(table'[name].body, name, last'.arity)]_vars

\* 1 =f, then 0 f f|1: f, a variable before, is the function whose body
\* calls f on 0
C15_Witness ==
    /\ line = <<n1, AssignVariable("f")>>
    /\ last = AssignFunction("f", 1)
    /\ status = "ready"
    /\ stack = <<>>
    /\ table["f"] = Function(1, ExecTree(f, <<ExecTree(n0, <<>>)>>))

\* C16: a name in the body of f is looked up when a call of f is evaluated:
\* f sees the value x was given after f was defined, the function x was
\* redefined as with the same arity, and the variable a name unbound at the
\* definition of f was bound to later
C16_LateBinding ==
    /\ Printed(LateRebound) => out = <<Line("> 2")>>
    /\ Printed(LateUnbound) => out = <<Line("> 3")>>
    /\ Printed(LateRedefined) => out = <<Line("> 2")>>
    /\ Printed(LateVariableForFunction) => out = <<Line("> 7")>>

\* 1 =x x f|0 2 =x f = has printed, with x in the body of f and x now 2
C16_Witness ==
    /\ Printed(LateRebound)
    /\ table["f"] = Function(0, ExecTree(x, <<>>))
    /\ table["x"] = Variable(RInt(2))
    /\ ret = RInt(2)

\* the extractor with no name to take for a self reference
ExtractTop(stk, tbl) == extract_function(stk, tbl, "", 0, Len(stk))

\* C18: when the counter of the extractor, with no self reference, finds the
\* expression stack[j..end), Drop leaves the stack stack[0..j) and the table
\* as it was
C18_DropRemovesTheExpression ==
    [][(fed' = fed + 1 /\ last' = Op("Drop")
        /\ ExtractTop(stack, table).kind = "FoundAt")
       => (/\ stack' = Front(stack, ExtractTop(stack, table).index)
           /\ table' = table)]_vars

\* 0 1 0 then ~ and !: the three tokens of 1 0 ~ are dropped
C18_Witness ==
    /\ line = <<n0, n1, n0>>
    /\ fed = 2
    /\ last = Op("Drop")
    /\ stack = <<Number(Zero)>>

RECURSIVE FlushPlan(_, _)
\* what C19 says Flush takes off the stack: the expressions from the top, and
\* the prefix left when one is not found
FlushPlan(stk, tbl) ==
    IF stk = <<>> THEN [found |-> <<>>, rest |-> <<>>, failed |-> FALSE]
    ELSE
        LET c == clip_head(stk, tbl)
            more == FlushPlan(c.stack, tbl)
        IN  IF c.expression = <<>>
            THEN [found |-> <<>>, rest |-> stk, failed |-> TRUE]
            ELSE [more EXCEPT !.found = <<c.expression>> \o more.found]

\* the results Flush is to give for a plan: a tree for each expression found,
\* and NoTree for the one not found
PlanTrees(plan, tbl) ==
    [k \in 1..Len(plan.found) |-> parse_tree(plan.found[k], tbl).tree]
    \o (IF plan.failed THEN <<NoTree>> ELSE <<>>)

\* the line Flush writes for a tree
FlushLine(tree) ==
    IF tree = NoTree \/ is_none(RunM(StartM(tree, <<>>), table, MaxSteps).ret)
    THEN Line("Incomplete expression")
    ELSE Line("> " \o Show(RunM(StartM(tree, <<>>), table, MaxSteps).ret))

\* Flush takes the expressions of the plan off the stack, the top-most first,
\* and leaves the prefix of the failure, or nothing
FlushExtracts ==
    (fed' = fed + 1 /\ last' = Op("Flush")) =>
        LET plan == FlushPlan(stack, table) IN
        /\ stack' = plan.rest
        /\ table' = table
        /\ plan.failed \/ stack' = <<>>
        /\ IF status' = "computing"
           THEN job'.all_trees = PlanTrees(plan, table)
           ELSE /\ plan.found = <<>>
                /\ out' = (IF plan.failed THEN <<Line("Incomplete expression")>>
                           ELSE <<>>)

\* Flush writes one result for each tree it has, in their order
FlushReports ==
    Reduced({"Flush"}) =>
        /\ stack' = stack
        /\ table' = table
        /\ Len(out') = Len(job.all_trees)
        /\ \A k \in 1..Len(out') : out'[k] = FlushLine(job.all_trees[k])

Flushing == status = "computing" /\ last = Op("Flush")

\* C19 as it is stated, in what it says of termination: Flush terminates
C19_FlushTerminates == Flushing ~> (status = "ready")

\* C19: Flush gives one result for each complete expression on the stack,
\* the top-most first; the stack is empty afterwards, or the prefix on which
\* the extraction failed, for which one more incomplete-expression result is
\* given; and Flush terminates unless one of its reductions never returns or
\* the process dies in it
C19_Flush ==
    /\ [][FlushExtracts /\ FlushReports]_vars
    /\ \/ Flushing ~> (status = "ready")
       \/ <>[](status = "computing")
       \/ <>(status \notin {"ready", "computing"})

\* 0 1 0 then $0, 0 and >: the 0 on top is reported, then the failure on
\* 0 1 0 $0, which is left
C19_Witness ==
    /\ line = <<n0, n1, n0>>
    /\ fed = 3
    /\ last = Op("Flush")
    /\ status = "ready"
    /\ stack = <<Number(Zero), Number(One), Number(Zero), Argument(0)>>
    /\ out = <<Line("> 0"), Line("Incomplete expression")>>

\* the value of a hexadecimal digit
HexDigit(h) ==
    IF h \in 48..57 THEN h - 48
    ELSE IF h \in 65..70 THEN h - 65 + 10
    ELSE h - 97 + 10

RECURSIVE Unescaped(_)
\* the bytes a literal stands for, in the order of the source: \n, \r, \t,
\* \\ and \" are one byte each, \HH the byte of the two digits, and any
\* other byte is itself
Unescaped(bytes) ==
    IF bytes = <<>> THEN <<>>
    ELSE IF bytes[1] # 92 THEN <<bytes[1]>> \o Unescaped(Tail(bytes))
    ELSE IF bytes[2] \in {110, 114, 116, 92, 34}
    THEN <<CASE bytes[2] = 110 -> 10
             [] bytes[2] = 114 -> 13
             [] bytes[2] = 116 -> 9
             [] OTHER -> bytes[2]>> \o Unescaped(Tail(Tail(bytes)))
    ELSE <<16 * HexDigit(bytes[2]) + HexDigit(bytes[3])>>
         \o Unescaped(Tail(Tail(Tail(bytes))))

\* the bytes of the literal lexed
Literal == Unescaped(SubSeq(slice, 2, Len(slice) - 1))

RECURSIVE LeftmostHighest(_)
\* the sum of b[i] * 256^(k-1-i): the leftmost byte the most significant
LeftmostHighest(b) ==
    IF b = <<>> THEN IntZero
    ELSE IntAdd(ShiftLeft(LeftmostHighest(SubSeq(b, 1, Len(b) - 1)), 1),
                IntFrom(b[Len(b)]))

RECURSIVE LeftmostLowest(_)
\* the sum of b[i] * 256^i: the leftmost byte the least significant
LeftmostLowest(b) ==
    IF b = <<>> THEN IntZero
    ELSE IntAdd(ShiftLeft(LeftmostLowest(Tail(b)), 1), IntFrom(b[1]))

\* C20 as it is stated: the literal of the bytes b_0 ... b_(k-1) is the
\* number sum of b_i * 256^(k-1-i)
C20_LeftmostByteMostSignificant ==
    status \in {"lexed", "formatted"} => number = LeftmostHighest(Literal)

\* C20: the literal of the bytes b_0 ... b_(k-1) is the number sum of
\* b_i * 256^i, the leftmost byte being the least significant digit and the
\* rightmost the most significant
C20_LeftmostByteLeastSignificant ==
    status \in {"lexed", "formatted"} => number = LeftmostLowest(Literal)

\* "abababab\41": the digits are 97 98 ... 98 65 from the lowest on
C20_Witness ==
    /\ status = "lexed"
    /\ slice = <<34>> \o Word \o <<92, 52, 49>> \o <<34>>
    /\ number = Word \o <<65>>

\* C21: for a literal with no zero byte, Format of its number writes the
\* bytes of the literal in their order, then at most 7 zero bytes, and
\* nothing else
C21_FormatGivesTheLiteralBack ==
    (status = "formatted" /\ \A i \in 1..Len(Literal) : Literal[i] # 0) =>
        /\ Len(out) = 1
        /\ out[1].text = ""
        /\ Len(out[1].bytes) - Len(Literal) \in 0..7
        /\ SubSeq(out[1].bytes, 1, Len(Literal)) = Literal
        /\ \A i \in Len(Literal) + 1..Len(out[1].bytes) : out[1].bytes[i] = 0

\* "abababab\41": nine bytes come back, and seven zero bytes after them
C21_Witness ==
    /\ status = "formatted"
    /\ slice = <<34>> \o Word \o <<92, 52, 49>> \o <<34>>
    /\ out = <<Bytes(Word \o <<65, 0, 0, 0, 0, 0, 0, 0>>)>>

RECURSIVE FibonacciFrom(_, _, _)
FibonacciFrom(a, b, n) == IF n = 0 THEN a ELSE FibonacciFrom(b, a + b, n - 1)

\* the n-th Fibonacci number, F(0) = 0 and F(1) = 1
Fibonacci(n) == FibonacciFrom(0, 1, n)

\* the n of a line n nfib =, n tfib = or n fib =
Asked == line[Len(line) - 2].value.num

\* the line has been answered with v
Answered(v) ==
    /\ line \in FibScripts
    /\ fed = Len(line)
    /\ last = Op("Return")
    /\ status = "ready"
    /\ out = <<Line("> " \o ToString(v))>>

\* C22: n nfib, n tfib and n fib all evaluate to the n-th Fibonacci number
C22_FibonacciAgree ==
    (line \in FibScripts /\ fed = Len(line) /\ status = "computing")
        ~> (line \in FibScripts /\ Answered(Fibonacci(Asked)))

\* 30 fib = is answered with 832040
C22_Witness ==
    /\ line = IterativeFibonacci \o <<Num(30), Identifier("fib"), Op("Return")>>
    /\ Answered(832040)

\* the operands of a token when name is counted with arity and every other
\* name as the table has it; no name is counted so when name is ""
OperandsWith(tbl, token, name, arity) ==
    IF token.type = "Identifier" /\ token.name = name THEN arity
    ELSE Operands(tbl, token)

RECURSIVE Leaves1(_, _, _, _, _, _)
\* the tokens read from the left as a postfix expression: every token finds
\* its operands among the values before it, and one value is left
Leaves1(tokens, k, have, tbl, name, arity) ==
    IF k > Len(tokens) THEN have = 1
    ELSE LET n == OperandsWith(tbl, tokens[k], name, arity) IN
         /\ n >= 0
         /\ have >= n
         /\ Leaves1(tokens, k + 1, have - n + 1, tbl, name, arity)

\* the tokens are one complete postfix expression
Complete(tokens, tbl, name, arity) == Leaves1(tokens, 1, 0, tbl, name, arity)

HasArgument(tokens) == \E k \in 1..Len(tokens) : tokens[k].type = "Argument"

\* what an extractor found is the one suffix that satisfies Good, and it
\* found nothing when no suffix does
FindsThe(found, Good(_)) ==
    /\ found.kind \in {"FoundAt", "NotFound"}
    /\ \A j \in 0..Len(stack) :
        (found = FoundAt(j)) <=> Good(Back(stack, j))
    /\ (found = NotFound) <=> (\A j \in 0..Len(stack) : ~Good(Back(stack, j)))

\* the names and arities an assignment may hand to extract_function
SelfNames == Names \cup {""}
SelfArities == 0..2

\* C23 as it is stated: both extractors find the suffix that is one complete
\* expression under the arities of the table
C23_ExtractorsFollowTheTable ==
    LET Good(tokens) == Complete(tokens, table, "", 0) IN
    /\ \A name \in SelfNames, arity \in SelfArities :
        FindsThe(extract_function(stack, table, name, arity, Len(stack)), Good)
    /\ FindsThe(ClipLoop(stack, table, 1, Len(stack)), Good)

\* C23: extract_function, started at the end of the stack, returns FoundAt(j)
\* exactly when stack[j..end) is one complete postfix expression, the name
\* being defined counted at the arity of the assignment and every other name
\* at the arity of the table, and NotFound exactly when no suffix is one;
\* clip_head finds the same suffix under the arities of the table, but only
\* when it holds no Argument, and finds nothing otherwise
C23_ExtractorsFindTheExpression ==
    /\ \A name \in SelfNames, arity \in SelfArities :
        LET Good(tokens) == Complete(tokens, table, name, arity) IN
        FindsThe(extract_function(stack, table, name, arity, Len(stack)), Good)
    /\ LET Good(tokens) == Complete(tokens, table, "", 0) /\ ~HasArgument(tokens) IN
       FindsThe(ClipLoop(stack, table, 1, Len(stack)), Good)

\* $0 f|1 then 0, f and f|0: f is taken alone, as the call of no operand it
\* is being defined as, and 0 is left
C23_Witness ==
    /\ line = <<a0, AssignFunction("f", 1)>>
    /\ fed = 3
    /\ last = AssignFunction("f", 0)
    /\ stack = <<n0>>
    /\ table["f"].arity = 0

RECURSIVE WellBuilt(_, _)
\* every node of the tree has as many children as its token has operands
\* under the table
WellBuilt(tree, tbl) ==
    /\ Len(tree.arguments) = Operands(tbl, tree.token)
    /\ \A i \in 1..Len(tree.arguments) : WellBuilt(tree.arguments[i], tbl)

RECURSIVE Sources(_, _)
\* the slices the trees were built of, as they stood on the stack: the tree
\* built first stood on top; NoTree is no slice
Sources(trees, k) ==
    IF k > Len(trees) THEN <<>>
    ELSE Sources(trees, k + 1)
         \o (IF trees[k] = NoTree THEN <<>> ELSE Postfix(trees[k]))

ParsePanics ==
    {"parse_tree: Corrupted stack", "parse_tree: split_off", "parse_tree: unwrap"}

\* the step is the handler of an AssignIterative that finds its expressions
IterativeFound ==
    /\ fed' = fed + 1
    /\ last'.type = "AssignIterative"
    /\ IndicesLoop(stack, table, last'.name, last'.arity, Len(stack),
                   last'.arity + 2).found

\* C24: the tree builder never runs out of trees for a token; every node it
\* builds has as many children as its token has operands under the table in
\* force; and the one tree left holds the whole slice
C24_BuilderIsFed ==
    [][(fed' = fed + 1) =>
        /\ status' \notin ParsePanics
        /\ (last'.type \in ComputeTypes \cup {"Flush"} /\ status' = "computing") =>
            /\ \A k \in 1..Len(job'.all_trees) :
                job'.all_trees[k] # NoTree => WellBuilt(job'.all_trees[k], table)
            /\ stack = stack' \o Sources(job'.all_trees, 1)
        /\ FunctionFound =>
            /\ WellBuilt(table'[last'.name].body, table')
            /\ stack = stack' \o Postfix(table'[last'.name].body)
        /\ IterativeFound =>
            LET it == table'[last'.name] IN
            /\ it.kind = "Iterative"
            /\ \A k \in 1..Len(it.exps) : WellBuilt(it.exps[k], table')
            /\ WellBuilt(it.last, table')
            /\ WellBuilt(it.cond, table')
            /\ stack = stack' \o PostfixAll(it.exps, 1) \o Postfix(it.last)
                              \o Postfix(it.cond)]_vars

\* f 0 ~ f|0 then 1, f and f|1: the f of the slice 1 f is built with the one
\* child the new definition gives it, not the none of the old
C24_Witness ==
    /\ line = <<f, n0, Op("PositiveMinus"), AssignFunction("f", 0)>>
    /\ fed = 3
    /\ last = AssignFunction("f", 1)
    /\ stack = <<>>
    /\ table["f"] = Function(1, ExecTree(f, <<ExecTree(n1, <<>>)>>))

RECURSIVE ArgumentsBelow(_, _)
\* every Argument(i) of the tree has i < arity
ArgumentsBelow(tree, arity) ==
    /\ tree.token.type = "Argument" => tree.token.index < arity
    /\ \A i \in 1..Len(tree.arguments) : ArgumentsBelow(tree.arguments[i], arity)

\* C25: every Function and every Iterative of the table holds only
\* Argument(i) with i below its arity
C25_ArgumentsWithinArity ==
    \A name \in DOMAIN table :
        LET object == table[name] IN
        /\ object.kind = "Function" => ArgumentsBelow(object.body, object.arity)
        /\ object.kind = "Iterative" =>
            /\ \A k \in 1..Len(object.exps) :
                ArgumentsBelow(object.exps[k], object.arity)
            /\ ArgumentsBelow(object.last, object.arity)
            /\ ArgumentsBelow(object.cond, object.arity)

RECURSIVE InOrder(_, _, _, _)
\* the tokens as the complete expressions they are made of, in the order of
\* the stack: the last one is the one suffix that is complete, and the
\* others are those of what stands before it
InOrder(tokens, tbl, name, arity) ==
    LET starts == {j \in 0..Len(tokens) - 1 :
                    Complete(Back(tokens, j), tbl, name, arity)}
        j == CHOOSE j \in starts : TRUE
    IN  IF tokens = <<>> \/ starts = {} THEN <<>>
        ELSE InOrder(Front(tokens, j), tbl, name, arity) \o <<Back(tokens, j)>>

\* C27: when AssignIterative(name, n) finds n + 2 expressions e_0 ... e_(n+1)
\* on top of the stack, it binds the name to the Iterative of the trees of
\* e_0 ... e_(n-1) as updates, in this order, of e_n as finalizer and of
\* e_(n+1) as condition, and takes these expressions, and no more, off the
\* stack
C27_IterativeAssigned ==
    [][IterativeFound =>
        LET name == last'.name
            n == last'.arity
            taken == Back(stack, Len(stack'))
            e == InOrder(taken, table', name, n)
            tree(k) == parse_tree(e[k], table').tree
        IN
        /\ stack' = Front(stack, Len(stack'))
        /\ Len(e) = n + 2
        /\ table'[name] = Iterative(n, [k \in 1..n |-> tree(k)], tree(n + 1),
                                    tree(n + 2))
        /\ \A other \in DOMAIN table \ {name} :
            other \in DOMAIN table' /\ table'[other] = table[other]]_vars

\* 7 $1 $0 $2 1 ~ $1 $2 swap@3: the updates are $1, $0 and $2 1 ~, the
\* finalizer $1, the condition $2, and 7 stays
C27_Witness ==
    /\ last = AssignIterative("swap", 3)
    /\ stack = <<Num(7)>>
    /\ table["swap"] =
        Iterative(3,
                  <<ExecTree(Argument(1), <<>>), ExecTree(a0, <<>>),
                    ExecTree(Op("PositiveMinus"),
                             <<ExecTree(Argument(2), <<>>), ExecTree(n1, <<>>)>>)>>,
                  ExecTree(Argument(1), <<>>), ExecTree(Argument(2), <<>>))

\* the evaluator stands in the body of the new g, which alone holds a Plus
InNewBody == \E k \in 1..Len(frames) : frames[k].token.type = "Plus"

\* C28: when g is given another arity after the body of f was built with a
\* call of g, the evaluation of f that reaches the call gives None: the
\* process does not die, the body of the new g is not entered, and f = is
\* answered with the message of a failed evaluation
C28_StaleCallFails ==
    (line \in StaleScripts) =>
        /\ status \in {"ready", "computing"}
        /\ ~InNewBody
        /\ (fed = Len(line) /\ last = Op("Return") /\ status = "ready") =>
            /\ is_none(ret)
            /\ out = <<Line("Incomplete expression")>>
            /\ stack = <<>>

\* $0 $1 - g|2 1 2 g f|0 $0 $0 + g|1 f =: the call has two children and g
\* now takes one
C28_Witness ==
    /\ line \in StaleScripts
    /\ line[Len(line) - 2] = AssignFunction("g", 1)
    /\ fed = Len(line)
    /\ last = Op("Return")
    /\ status = "ready"
    /\ Len(table["f"].body.arguments) = 2
    /\ table["g"].arity = 1
    /\ out = <<Line("Incomplete expression")>>

\* the stack holds tokens, and no suffix of it is a complete expression
NothingComplete ==
    /\ stack # <<>>
    /\ \A j \in 0..Len(stack) - 1 : ~Complete(Back(stack, j), table, "", 0)

\* C29: when the stack is not empty and no suffix of it is a complete
\* expression, Drop empties the stack, leaves the table as it was and writes
\* nothing, while the evaluation actions leave the stack as it was
C29_DropEmptiesTheIncomplete ==
    [][(fed' = fed + 1 /\ NothingComplete) =>
        /\ last' = Op("Drop") =>
            /\ stack' = <<>>
            /\ table' = table
            /\ out' = <<>>
            /\ status' = "ready"
        /\ last'.type \in ComputeTypes \cup {"Flush"} =>
            /\ stack' = stack
            /\ table' = table]_vars

\* 0 ? then !: the two tokens lack two operands, and are dropped
C29_Witness ==
    /\ line = <<n0, Op("If")>>
    /\ fed = 1
    /\ last = Op("Drop")
    /\ stack = <<>>
    /\ out = <<>>

\* the index of the Argument a leftward scan meets while it still lacks
\* to_copy operands, from the token at i down; 0 when it meets none
RECURSIVE ScanMeets(_, _, _, _)
ScanMeets(stk, tbl, to_copy, i) ==
    IF to_copy = 0 \/ i = 0 THEN 0
    ELSE LET t == stk[i] IN
         IF t.type = "Argument" THEN i
         ELSE IF t.type = "Number" THEN ScanMeets(stk, tbl, to_copy - 1, i - 1)
         ELSE IF t.type = "Identifier" THEN
             ScanMeets(stk, tbl, to_copy + TableArity(tbl, t.name) - 1, i - 1)
         ELSE IF t.type \in BinaryTypes THEN ScanMeets(stk, tbl, to_copy + 1, i - 1)
         ELSE IF t.type \in TernaryTypes THEN ScanMeets(stk, tbl, to_copy + 2, i - 1)
         ELSE 0

\* the Argument the scan of an evaluation meets when token k is the top
ArgumentMet(stk, tbl, k) == ScanMeets(stk, tbl, 1, k)

\* the tokens that take tokens the scan has met off the stack by design
RemovingTypes == {"Drop", "Empty", "AssignFunction", "AssignIterative"}

\* an AssignVariable gives a variable the name of a function that stands
\* between the Argument at m and the token at k
Rebinds(token, m, k) ==
    /\ token.type = "AssignVariable"
    /\ TableArity(table, token.name) > 0
    /\ \E j \in m + 1..k : stack[j] = Identifier(token.name)

\* the stack the first line left, when that line ended in an evaluation
\* whose scan met an Argument
Kept == Feed(New, line, 1).stack
FirstLineMet ==
    /\ line # <<>>
    /\ line[Len(line)].type \in ComputeTypes \cup {"Flush"}
    /\ ArgumentMet(Kept, Feed(New, line, 1).table, Len(Kept)) > 0

\* the functions and iteratives of the table are those the first line defined
NothingDefinedSince ==
    \A n \in DOMAIN table :
        table[n].kind \in {"Function", "Iterative"} =>
            /\ n \in DOMAIN Feed(New, line, 1).table
            /\ table[n] = Feed(New, line, 1).table[n]

\* C30 as stated: the tokens left by an evaluation whose scan met an Argument
\* leave the stack only in a step of Drop, Empty or a definition, no
\* definition having been made since
C30_MetTokensStay ==
    [][(FirstLineMet /\ NothingDefinedSince /\ Len(stack) >= Len(Kept)
        /\ Front(stack, Len(Kept)) = Kept /\ last'.type \notin RemovingTypes)
       => (Len(stack') >= Len(Kept) /\ Front(stack', Len(Kept)) = Kept)]_vars

\* C30: an evaluation action whose scan meets an Argument leaves the stack
\* and the table as they were and reduces nothing; and over every step that
\* is not of Drop, Empty or a definition, the tokens up to a top from which
\* the scan meets an Argument stay, and the scan from that top still meets
\* that Argument unless an AssignVariable has made a function name above
\* the Argument a variable; the Argument and what is below it stay then too
C30_ArgumentStays ==
    [][/\ (fed' = fed + 1 /\ last'.type \in ComputeTypes \cup {"Flush"}
           /\ ArgumentMet(stack, table, Len(stack)) > 0)
          => (stack' = stack /\ table' = table /\ status' = "ready")
       /\ last'.type \notin RemovingTypes =>
            \A k \in 1..Len(stack) :
                LET m == ArgumentMet(stack, table, k) IN
                m > 0 =>
                    /\ Len(stack') >= k
                    /\ Front(stack', k) = Front(stack, k)
                    /\ ArgumentMet(stack', table', m) = m
                    /\ ArgumentMet(stack', table', k) = m \/ Rebinds(last', m, k)]_vars

\* $0 1 ~ = then 0, = and >: the 0 is returned, and Flush meets the Argument
C30_Witness ==
    /\ line = <<a0, n1, Op("PositiveMinus"), Op("Return")>>
    /\ fed = 3
    /\ last = Op("Flush")
    /\ stack = <<a0, n1, Op("PositiveMinus")>>
    /\ out = <<Line("Incomplete expression")>>

-----------------------------------------------------------------------------
(* Claims about the evaluator.                                              *)

\* the tree reduce() was called on, and its args
ProbeTree == job.all_trees[1]
ProbeArgs == job.args

\* tree.reduce(table, args) run on its own
Val(tree, args) == RunM(StartM(tree, args), table, MaxSteps)
Returns(tree, args) == LET m == Val(tree, args) IN m.frames = <<>> /\ m.panic = ""
Value(tree, args) == Val(tree, args).ret

IsIf == ProbeTree.token.type = "If"

\* what C4 says an If is worth, from the values of its children
IfValue(tree, args) ==
    LET c == Value(tree.arguments[3], args) IN
    IF is_none(c) THEN None
    ELSE IF is_zero(c) THEN Value(tree.arguments[2], args)
    ELSE Value(tree.arguments[1], args)

\* C4: an If built from t e c ? is worth None when c is None, the value of
\* e when c is zero, and the value of t otherwise
C4_IfValue ==
    (status = "returned" /\ IsIf) => ret = IfValue(ProbeTree, ProbeArgs)

\* 1 2 0 ? has returned 2, 2 1 $0 ? under $0 = 1 has returned 2
C4_Witness ==
    /\ status = "returned"
    /\ \/ line = <<n1, Num(2), n0, Op("If")>>
       \/ line = <<Num(2), n1, a0, Op("If")>> /\ ProbeArgs = <<One>>
    /\ ret = RInt(2)

\* the arm the condition selects and the other one
Taken(tree, args) ==
    IF is_zero(Value(tree.arguments[3], args)) THEN tree.arguments[2]
    ELSE tree.arguments[1]
Untaken(tree, args) ==
    IF is_zero(Value(tree.arguments[3], args)) THEN tree.arguments[1]
    ELSE tree.arguments[2]

\* reduce() is called on an If whose condition has a value, whose selected
\* arm returns, and whose other arm fails or never returns
C6_Case ==
    /\ status = "reducing"
    /\ IsIf
    /\ frames = <<Frame(ProbeTree, ProbeArgs)>>
    /\ Returns(ProbeTree.arguments[3], ProbeArgs)
    /\ ~is_none(Value(ProbeTree.arguments[3], ProbeArgs))
    /\ Returns(Taken(ProbeTree, ProbeArgs), ProbeArgs)
    /\ \/ ~Returns(Untaken(ProbeTree, ProbeArgs), ProbeArgs)
       \/ is_none(Value(Untaken(ProbeTree, ProbeArgs), ProbeArgs))

\* C6: the arm that is not selected is not evaluated: when it holds an
\* undefined name, a division by zero, an Argument out of range or a call
\* that never returns, the If still returns the value of the selected arm
C6_UntakenArmNotEvaluated ==
    C6_Case ~> (status = "returned" /\ IsIf
                /\ ret = Value(Taken(ProbeTree, ProbeArgs), ProbeArgs))

\* 1 loop 1 ? has returned 1
C6_Witness ==
    /\ status = "returned"
    /\ line = <<n1, loop, n1, Op("If")>>
    /\ ret = One

Max(a, b) == IF a > b THEN a ELSE b

RECURSIVE MaxHeight(_, _)
RECURSIVE Height(_)
\* the nodes on the longest path from the root of a tree to a leaf
Height(tree) == 1 + MaxHeight(tree.arguments, 1)
MaxHeight(trees, k) ==
    IF k > Len(trees) THEN 0
    ELSE Max(Height(trees[k]), MaxHeight(trees, k + 1))

\* the body is a call of name in tail position: the body itself, or an arm
\* of the If the body is
RECURSIVE IsTailCall(_, _)
IsTailCall(body, name) ==
    \/ body.token = Identifier(name)
    \/ /\ body.token.type = "If"
       /\ \/ IsTailCall(body.arguments[1], name)
          \/ IsTailCall(body.arguments[2], name)

\* reduce() was called on a call of a function that calls itself in tail
\* position
C7_Case ==
    /\ ProbeTree.token.type = "Identifier"
    /\ ProbeTree.token.name \in DOMAIN table
    /\ table[ProbeTree.token.name].kind = "Function"
    /\ IsTailCall(table[ProbeTree.token.name].body, ProbeTree.token.name)

\* C7: while a function that calls itself in tail position is evaluated, the
\* invocations of reduce() nested in one another are never more than the
\* height of the body (or of the call), however many calls are made
C7_BoundedDepth ==
    C7_Case =>
        /\ status \in {"reducing", "returned"}
        /\ Len(frames) <= Max(Height(ProbeTree),
                              Height(table[ProbeTree.token.name].body))

\* down has called itself MaxCount times and returned
C7_Witness ==
    /\ status = "returned"
    /\ line = <<Num(MaxCount), down>>
    /\ ret = Zero

\* what C8 and C9 say a call of an Iterative on the values a is worth
RECURSIVE IterValue(_, _, _)
IterValue(obj, a, fuel) ==
    LET c == Value(obj.cond, a)
        b == [i \in 1..Len(obj.exps) |-> Value(obj.exps[i], a)]
    IN
    IF fuel = 0 THEN [kind |-> "endless", value |-> None]
    ELSE IF is_none(c) THEN [kind |-> "condition is None", value |-> None]
    ELSE IF is_zero(c) THEN [kind |-> "value", value |-> Value(obj.last, a)]
    ELSE IF HasNone(b) THEN [kind |-> "update is None", value |-> None]
    ELSE IterValue(obj, b, fuel - 1)

\* reduce() was called on a call of an Iterative and has returned
IterReturned ==
    /\ status = "returned"
    /\ ProbeTree.token.type = "Identifier"
    /\ ProbeTree.token.name \in DOMAIN table
    /\ table[ProbeTree.token.name].kind = "Iterative"
    /\ Len(ProbeTree.arguments) = table[ProbeTree.token.name].arity

\* the values of the arguments of the call
CallArgs ==
    [i \in 1..Len(ProbeTree.arguments) |-> Value(ProbeTree.arguments[i], ProbeArgs)]

\* C8: a call of an Iterative on the values a replaces a by the values of
\* all the updates on the previous a while the condition on a is not zero,
\* and returns the finalizer on a when the condition on a is zero
C8_IterativeValue ==
    (IterReturned /\ ~HasNone(CallArgs)
        /\ IterValue(table[ProbeTree.token.name], CallArgs, MaxSteps).kind = "value")
    => ret = IterValue(table[ProbeTree.token.name], CallArgs, MaxSteps).value

\* 0 1 1 swap has swapped once and returned what was $0
C8_Witness ==
    /\ status = "returned"
    /\ line = <<n0, n1, n1, swap>>
    /\ ret = Zero

\* C9: when the condition of an Iterative is None at an iteration, the first
\* or a later one, with every argument defined, the call returns None
C9_NoneConditionFails ==
    (IterReturned /\ ~HasNone(CallArgs)
        /\ IterValue(table[ProbeTree.token.name], CallArgs, MaxSteps).kind
            = "condition is None")
    => is_none(ret)


\* the value of the tree is zero
WorthZero(tree, args) ==
    Returns(tree, args) /\ ~is_none(Value(tree, args)) /\ is_zero(Value(tree, args))

RECURSIVE Fails(_, _)
\* what C17 says fails: an unbound name, an Argument past the args, a
\* division by what is worth zero, and every binary operator, ExpMod, If
\* condition and call with an argument that fails
Fails(tree, args) ==
    LET token == tree.token
        below == \E i \in 1..Len(tree.arguments) : Fails(tree.arguments[i], args)
    IN
    IF token.type = "Identifier" THEN
        \/ token.name \notin DOMAIN table
        \/ /\ table[token.name].kind \in {"Function", "Iterative"}
           /\ table[token.name].arity = Len(tree.arguments)
           /\ below
    ELSE IF token.type = "Argument" THEN ~(token.index < Len(args))
    ELSE IF token.type = "If" THEN Fails(tree.arguments[3], args)
    ELSE IF token.type \in {"Divide", "IntegerDiv"}
        THEN below \/ WorthZero(tree.arguments[2], args)
    ELSE below

\* C17: a tree with an unbound name, an Argument out of range or a division
\* by zero on the path evaluated is reduced to None: the None goes up through
\* every binary operator, ExpMod, If condition and argument of a call
C17_NonePropagates ==
    Fails(ProbeTree, ProbeArgs) =>
        /\ status \in {"reducing", "returned"}
        /\ status = "returned" => is_none(ret)

\* 1 0 / 1 + 1 + has returned None
C17_Witness ==
    /\ status = "returned"
    /\ line = <<n1, n0, Op("Divide"), n1, Op("Plus"), n1, Op("Plus")>>
    /\ Fails(ProbeTree, ProbeArgs)
    /\ is_none(ret)

\* the tree holds a call of a Function, and nothing but numbers, arguments,
\* If, the binary operators, variables and calls of Functions that are
\* given as many children as the Function has operands
RECURSIVE Plain(_)
Plain(tree) ==
    LET token == tree.token IN
    /\ token.type \in {"Number", "Argument", "If", "Identifier"} \cup BinaryTypes
    /\ token.type = "Identifier" =>
        \/ token.name \notin DOMAIN table
        \/ table[token.name].kind = "Variable"
        \/ /\ table[token.name].kind = "Function"
           /\ table[token.name].arity = Len(tree.arguments)
    /\ \A i \in 1..Len(tree.arguments) : Plain(tree.arguments[i])

RECURSIVE HasCall(_)
HasCall(tree) ==
    \/ /\ tree.token.type = "Identifier"
       /\ tree.token.name \in DOMAIN table
       /\ table[tree.token.name].kind = "Function"
    \/ \E i \in 1..Len(tree.arguments) : HasCall(tree.arguments[i])

RECURSIVE Meaning(_, _, _)
\* what C26 says a tree is worth under args: a call is worth its body under
\* the values its children have under args, and None if one of them is
\* None; every other node reads args itself. depth bounds the calls nested.
Meaning(tree, args, depth) ==
    LET token == tree.token
        child(i) == Meaning(tree.arguments[i], args, depth)
        values == [i \in 1..Len(tree.arguments) |-> child(i)]
    IN
    IF depth = 0 THEN None
    ELSE IF token.type = "Number" THEN token.value
    ELSE IF token.type = "Argument" THEN
        IF token.index < Len(args) THEN args[token.index + 1] ELSE None
    ELSE IF token.type = "If" THEN
        IF is_none(child(3)) THEN None
        ELSE IF is_zero(child(3)) THEN child(2)
        ELSE child(1)
    ELSE IF token.type \in BinaryTypes THEN
        IF is_none(child(1)) \/ is_none(child(2)) THEN None
        ELSE BinaryValue(token.type, child(1), child(2))
    ELSE IF token.name \notin DOMAIN table THEN None
    ELSE IF table[token.name].kind = "Variable" THEN table[token.name].value
    ELSE IF HasNone(values) THEN None
    ELSE Meaning(table[token.name].body, values, depth - 1)

\* C26: a call of a Function with as many children as its arity is worth
\* None if a child is None under the caller's args, and else its body with
\* Argument(i) bound to the value of the i-th child under the caller's args;
\* what stands after a call in the caller's expression reads the caller's
\* args
C26_CallBindsArguments ==
    (status = "returned" /\ Plain(ProbeTree) /\ HasCall(ProbeTree))
        => ret = Meaning(ProbeTree, ProbeArgs, MaxSteps)

\* $0 $0 inc sub $0 both - under $0 = 1: sub(1, 2) = -1 and
\* both(1) = (2 + 0) * 1, so -3, the last $0 of each being the caller's
C26_Witness ==
    /\ status = "returned"
    /\ line = <<a0, a0, inc, sub, a0, both, Op("Minus")>>
    /\ ProbeArgs = <<One>>
    /\ ret = RInt(-3)

=============================================================================
